---- MODULE Spec2Model ----
(***************************************************************************)
(* A model of the documentation service of ember-mcp: the corpus parser,   *)
(* the API entry index, the keyword ranker, the semantic ranker and the    *)
(* hybrid merger of DocumentationService, and the Orama-backed search of   *)
(* SearchService.                                                          *)
(*                                                                         *)
(* JavaScript strings are sequences of one-character strings, so that      *)
(* split, join, trim, indexOf, includes, toLowerCase and the regular       *)
(* expressions of the source are computed, character by character, the way *)
(* the source computes them.  The JavaScript value null/undefined is the   *)
(* model value Null.                                                       *)
(***************************************************************************)
EXTENDS Integers, Sequences, FiniteSets, TLC

VARIABLES
    corpus,         \* the text the remote DOCS_URL serves (environment)
    pipeline,       \* the vectors the embedder that pipeline() loads can return
                    \* (environment)
    documentation,  \* this.documentation
    sections,       \* this.sections, in key insertion order
    apiIndex,       \* this.apiIndex (a Map: key -> entry)
    loaded,         \* this.loaded
    embeddingIndex, \* this.embeddingIndex
    useEmbeddings,  \* this.useEmbeddings (a constructor option)
    embeddingService, \* the fields of this.embeddingService
    builds,         \* the buildEmbeddingIndex calls in progress
    pending,        \* the search call suspended on its query embedding, if any
    nParse,         \* number of parseDocumentation calls made so far
    loading,        \* number of loadDocumentation calls waiting for the corpus
    orama,          \* this.searchService of src/lib/documentation-service.js, with
                    \* the positions of its index population and of a search
    call,           \* the last operation called, with its arguments
    ret             \* what that operation returned

vars == <<corpus, pipeline, documentation, sections, apiIndex, loaded, embeddingIndex,
          useEmbeddings, embeddingService, builds, pending, nParse, loading, orama,
          call, ret>>

Null == "null"

(***************************************************************************)
(* Strings                                                                 *)
(***************************************************************************)
NL == "\n"

UpperLetters ==
    <<"A","B","C","D","E","F","G","H","I","J","K","L","M",
      "N","O","P","Q","R","S","T","U","V","W","X","Y","Z">>

LowerLetters ==
    <<"a","b","c","d","e","f","g","h","i","j","k","l","m",
      "n","o","p","q","r","s","t","u","v","w","x","y","z">>

Range(f) == {f[i] : i \in DOMAIN f}

Min(a, b) == IF a < b THEN a ELSE b

IsLowerLetter(c) == c \in Range(LowerLetters)

IsDigit(c) == c \in {"0","1","2","3","4","5","6","7","8","9"}

\* \s of a JavaScript regular expression, and the characters trim() strips
IsSpace(c) == c \in {" ", "\n", "\t", "\r"}

toLowerChar(c) ==
    IF c \in Range(UpperLetters)
    THEN LowerLetters[CHOOSE i \in DOMAIN UpperLetters : UpperLetters[i] = c]
    ELSE c

\* String.prototype.toLowerCase
toLowerCase(s) == [i \in 1..Len(s) |-> toLowerChar(s[i])]

\* s.substring(from, to), zero-based, end exclusive
substring(s, from, to) ==
    LET a == IF from < 0 THEN 0 ELSE IF from > Len(s) THEN Len(s) ELSE from
        b == IF to < 0 THEN 0 ELSE IF to > Len(s) THEN Len(s) ELSE to
        lo == IF a < b THEN a ELSE b
        hi == IF a < b THEN b ELSE a
    IN  SubSeq(s, lo + 1, hi)

\* whether t occurs in s at zero-based position p
occursAt(s, t, p) ==
    /\ p >= 0
    /\ p + Len(t) <= Len(s)
    /\ \A j \in 1..Len(t) : s[p + j] = t[j]

\* s.indexOf(t): the first zero-based position of t in s, or -1
indexOf(s, t) ==
    IF \E p \in 0..Len(s) : occursAt(s, t, p)
    THEN CHOOSE p \in 0..Len(s) :
            /\ occursAt(s, t, p)
            /\ \A q \in 0..(p - 1) : ~occursAt(s, t, q)
    ELSE -1

\* s.lastIndexOf(t)
lastIndexOf(s, t) ==
    IF \E p \in 0..Len(s) : occursAt(s, t, p)
    THEN CHOOSE p \in 0..Len(s) :
            /\ occursAt(s, t, p)
            /\ \A q \in (p + 1)..Len(s) : ~occursAt(s, t, q)
    ELSE -1

\* s.includes(t)
includes(s, t) == indexOf(s, t) # -1

\* s.startsWith(t)
startsWith(s, t) == occursAt(s, t, 0)

\* s.trim()
trim(s) ==
    IF \A i \in 1..Len(s) : IsSpace(s[i])
    THEN <<>>
    ELSE LET a == CHOOSE i \in 1..Len(s) :
                    ~IsSpace(s[i]) /\ \A j \in 1..(i - 1) : IsSpace(s[j])
             b == CHOOSE i \in 1..Len(s) :
                    ~IsSpace(s[i]) /\ \A j \in (i + 1)..Len(s) : IsSpace(s[j])
         IN  SubSeq(s, a, b)

\* s.split(sep) for a one-character separator: "" splits into [""]
RECURSIVE split(_, _)
split(s, sep) ==
    IF \A i \in 1..Len(s) : s[i] # sep
    THEN <<s>>
    ELSE LET k == CHOOSE i \in 1..Len(s) :
                    s[i] = sep /\ \A j \in 1..(i - 1) : s[j] # sep
         IN  <<SubSeq(s, 1, k - 1)>> \o split(SubSeq(s, k + 1, Len(s)), sep)

\* parts.join(sep)
RECURSIVE join(_, _)
join(parts, sep) ==
    IF Len(parts) = 0 THEN <<>>
    ELSE IF Len(parts) = 1 THEN parts[1]
    ELSE parts[1] \o <<sep>> \o join(Tail(parts), sep)

(***************************************************************************)
(* The corpus parser: DocumentationService.parseDocumentation              *)
(***************************************************************************)

\* line.match(/^# [a-z-]+$/)
isSectionHeader(line) ==
    /\ Len(line) >= 3
    /\ line[1] = "#"
    /\ line[2] = " "
    /\ \A i \in 3..Len(line) : IsLowerLetter(line[i]) \/ line[i] = "-"

\* line.match(/^-{3,}$/)
isSeparator(line) ==
    /\ Len(line) >= 3
    /\ \A i \in 1..Len(line) : line[i] = "-"

\* let currentSection = null: no section is open
NoLine == -1

\* this.sections as a sequence of [name, items], in key insertion order
hasSection(secs, name) == \E k \in 1..Len(secs) : secs[k].name = name

\* this.sections[name] || []
sectionItems(secs, name) ==
    IF hasSection(secs, name)
    THEN secs[CHOOSE k \in 1..Len(secs) : secs[k].name = name].items
    ELSE <<>>

\* this.sections[name] = this.sections[name] || []; this.sections[name].push(item)
pushItem(secs, name, item) ==
    IF hasSection(secs, name)
    THEN [k \in 1..Len(secs) |->
            IF secs[k].name = name
            THEN [secs[k] EXCEPT !.items = Append(@, item)]
            ELSE secs[k]]
    ELSE Append(secs, [name |-> name, items |-> <<item>>])

\* the locals of parseDocumentation before its loop, over the sections held
parseStart(secs) ==
    [sections       |-> secs,
     currentSection |-> NoLine,
     currentContent |-> <<>>,
     sectionName    |-> <<>>]

\* push {content: currentContent.join("\n"), startLine: currentSection}
flushItem(st) ==
    pushItem(st.sections, st.sectionName,
             [content   |-> join(st.currentContent, NL),
              startLine |-> st.currentSection])

\* the section-header branch of the loop
onHeader(st, line, i) ==
    LET saved == IF st.currentSection # NoLine /\ Len(st.currentContent) > 0
                 THEN flushItem(st)
                 ELSE st.sections
    IN  [sections       |-> saved,
         sectionName    |-> trim(substring(line, 2, Len(line))),
         currentSection |-> i,
         currentContent |-> <<line>>]

\* a mutant of onSeparator: the separator line opens the next item
onSeparatorKeepingLine(st, line, i) ==
    [st EXCEPT !.sections       = IF Len(st.currentContent) > 0
                                  THEN flushItem(st) ELSE st.sections,
               !.currentSection = i,
               !.currentContent = <<line>>]

\* the separator branch of the loop
onSeparator(st, line, i) ==
    [st EXCEPT !.sections       = IF Len(st.currentContent) > 0
                                  THEN flushItem(st) ELSE st.sections,
               !.currentSection = i + 1,
               !.currentContent = <<>>]

\* a mutant of parseLine: lines are collected although no section is open
parseLineNoSectionGuard(st, line, i) ==
    IF isSectionHeader(line) THEN onHeader(st, line, i)
    ELSE IF isSeparator(line) /\ Len(st.currentContent) > 1
            /\ st.currentSection # NoLine
    THEN onSeparator(st, line, i)
    ELSE [st EXCEPT !.currentContent = Append(@, line),
                    !.currentSection = IF @ = NoLine THEN i ELSE @]

\* one iteration of the loop, on lines[i]
parseLine(st, line, i) ==
    IF isSectionHeader(line) THEN onHeader(st, line, i)
    ELSE IF isSeparator(line) /\ Len(st.currentContent) > 1
            /\ st.currentSection # NoLine
    THEN onSeparator(st, line, i)
    ELSE IF st.currentSection # NoLine
    THEN [st EXCEPT !.currentContent = Append(@, line)]
    ELSE st

\* the locals after the first k iterations of the loop
RECURSIVE parseLoop(_, _, _)
parseLoop(st, lines, k) ==
    IF k = 0 THEN st
    ELSE parseLine(parseLoop(st, lines, k - 1), lines[k], k - 1)

\* a mutant of parseFinish: the lines accumulated at the end of the text are dropped
parseFinishWithoutSave(st) ==
    st.sections

\* "Save last section"
parseFinish(st) ==
    IF st.currentSection # NoLine /\ Len(st.currentContent) > 0
    THEN flushItem(st)
    ELSE st.sections

\* the sections parseDocumentation(text) leaves, on a service holding secs
parseSections(secs, text) ==
    LET lines == split(text, NL)
    IN  parseFinish(parseLoop(parseStart(secs), lines, Len(lines)))

(***************************************************************************)
(* JSON.parse, for the JSON texts made of objects, arrays and strings      *)
(* (no numbers, literals or escapes), with white space between tokens.     *)
(* A JavaScript value is [t |-> "str", v |-> characters], [t |-> "arr",    *)
(* v |-> elements], [t |-> "obj", v |-> key -> value] or Undefined.        *)
(***************************************************************************)
Undefined == [t |-> "undefined"]

JStr(s) == [t |-> "str", v |-> s]

JArr(a) == [t |-> "arr", v |-> a]

JObj(o) == [t |-> "obj", v |-> o]

NoParse == [ok |-> FALSE]

\* the first position >= p of s that holds no white space
RECURSIVE skipSpace(_, _)
skipSpace(s, p) ==
    IF p <= Len(s) /\ IsSpace(s[p]) THEN skipSpace(s, p + 1) ELSE p

\* obj with obj[key] = value
setKey(obj, key, value) ==
    [x \in (DOMAIN obj) \cup {key} |-> IF x = key THEN value ELSE obj[x]]

\* a string literal opening at s[p]
parseString(s, p) ==
    IF \E q \in (p + 1)..Len(s) : s[q] = "\""
    THEN LET q == CHOOSE q \in (p + 1)..Len(s) :
                    s[q] = "\"" /\ \A r \in (p + 1)..(q - 1) : s[r] # "\""
         IN  [ok |-> TRUE, v |-> JStr(SubSeq(s, p + 1, q - 1)), next |-> q + 1]
    ELSE NoParse

RECURSIVE parseValue(_, _), parseMembers(_, _, _), parseElements(_, _, _)
parseValue(s, p0) ==
    LET p == skipSpace(s, p0)
    IN  IF p > Len(s) THEN NoParse
        ELSE IF s[p] = "\"" THEN parseString(s, p)
        ELSE IF s[p] = "{"
        THEN IF skipSpace(s, p + 1) <= Len(s) /\ s[skipSpace(s, p + 1)] = "}"
             THEN [ok |-> TRUE, v |-> JObj(<<>>), next |-> skipSpace(s, p + 1) + 1]
             ELSE parseMembers(s, p + 1, <<>>)
        ELSE IF s[p] = "["
        THEN IF skipSpace(s, p + 1) <= Len(s) /\ s[skipSpace(s, p + 1)] = "]"
             THEN [ok |-> TRUE, v |-> JArr(<<>>), next |-> skipSpace(s, p + 1) + 1]
             ELSE parseElements(s, p + 1, <<>>)
        ELSE NoParse

parseMembers(s, p0, acc) ==
    LET p   == skipSpace(s, p0)
        key == IF p <= Len(s) /\ s[p] = "\"" THEN parseString(s, p) ELSE NoParse
        c   == skipSpace(s, key.next)
        val == parseValue(s, c + 1)
        e   == skipSpace(s, val.next)
    IN  IF ~key.ok THEN NoParse
        ELSE IF c > Len(s) \/ s[c] # ":" THEN NoParse
        ELSE IF ~val.ok THEN NoParse
        ELSE IF e > Len(s) THEN NoParse
        ELSE IF s[e] = "," THEN parseMembers(s, e + 1, setKey(acc, key.v.v, val.v))
        ELSE IF s[e] = "}"
        THEN [ok |-> TRUE, v |-> JObj(setKey(acc, key.v.v, val.v)), next |-> e + 1]
        ELSE NoParse

parseElements(s, p0, acc) ==
    LET val == parseValue(s, p0)
        e   == skipSpace(s, val.next)
    IN  IF ~val.ok THEN NoParse
        ELSE IF e > Len(s) THEN NoParse
        ELSE IF s[e] = "," THEN parseElements(s, e + 1, Append(acc, val.v))
        ELSE IF s[e] = "]"
        THEN [ok |-> TRUE, v |-> JArr(Append(acc, val.v)), next |-> e + 1]
        ELSE NoParse

\* JSON.parse(s): [ok |-> TRUE, value |-> v], or [ok |-> FALSE] for a SyntaxError
JSONparse(s) ==
    LET r == parseValue(s, 1)
    IN  IF r.ok /\ skipSpace(s, r.next) = Len(s) + 1
        THEN [ok |-> TRUE, value |-> r.v]
        ELSE [ok |-> FALSE]

\* obj.key, undefined when obj has no such property
get(obj, key) ==
    IF obj.t = "obj" /\ key \in DOMAIN obj.v THEN obj.v[key] ELSE Undefined

\* whether a JavaScript value is truthy
truthy(v) == v.t \in {"obj", "arr"} \/ (v.t = "str" /\ v.v # <<>>)

\* a || b
jsOr(a, b) == IF truthy(a) THEN a ELSE b

K_data == <<"d","a","t","a">>
K_attributes == <<"a","t","t","r","i","b","u","t","e","s">>
K_name == <<"n","a","m","e">>
K_shortname == <<"s","h","o","r","t","n","a","m","e">>
K_module == <<"m","o","d","u","l","e">>
K_type == <<"t","y","p","e">>
K_description == <<"d","e","s","c","r","i","p","t","i","o","n">>
K_extends == <<"e","x","t","e","n","d","s">>
K_methods == <<"m","e","t","h","o","d","s">>
K_properties == <<"p","r","o","p","e","r","t","i","e","s">>

(***************************************************************************)
(* The API entry indexer: DocumentationService.indexApiDocs                *)
(* The deprecation manager is an external collaborator; its calls leave    *)
(* the index alone and are not modelled.                                   *)
(***************************************************************************)
S_apiDocs == <<"a","p","i","-","d","o","c","s">>

S_communityBloggers ==
    <<"c","o","m","m","u","n","i","t","y","-","b","l","o","g","g","e","r","s">>

\* map.set(key, value)
mapSet(map, key, value) ==
    [x \in (DOMAIN map) \cup {key} |-> IF x = key THEN value ELSE map[x]]

\* the apiEntry object literal
apiEntry(name, data, attrs) ==
    [name        |-> name,
     type        |-> get(data, K_type),
     module      |-> get(attrs, K_module),
     description |-> get(attrs, K_description),
     extends     |-> get(attrs, K_extends),
     methods     |-> jsOr(get(attrs, K_methods), JArr(<<>>)),
     properties  |-> jsOr(get(attrs, K_properties), JArr(<<>>)),
     rawData     |-> data]

\* parts[parts.length - 1] of name.split('.')
lastSegment(name) ==
    LET parts == split(name, ".") IN parts[Len(parts)]

\* a mutant of registerEntry: the last name segment is not registered
registerEntryNoSegment(index, name, attrs, entry) ==
    LET byName == mapSet(index, toLowerCase(name.v), entry)
        module == get(attrs, K_module)
    IN  IF name.t # "str" THEN [index |-> index, threw |-> TRUE]
        ELSE IF truthy(module) /\ module.t # "str"
        THEN [index |-> byName, threw |-> TRUE]
        ELSE IF truthy(module)
        THEN [index |-> mapSet(byName, toLowerCase(module.v), entry), threw |-> FALSE]
        ELSE [index |-> byName, threw |-> FALSE]

\* the three this.apiIndex.set calls; toLowerCase of a value that is no string
\* throws a TypeError, after the sets made before it
registerEntry(index, name, attrs, entry) ==
    LET byName == mapSet(index, toLowerCase(name.v), entry)
        module == get(attrs, K_module)
        byModule == IF truthy(module)
                    THEN mapSet(byName, toLowerCase(module.v), entry)
                    ELSE byName
    IN  IF name.t # "str" THEN [index |-> index, threw |-> TRUE]
        ELSE IF truthy(module) /\ module.t # "str"
        THEN [index |-> byName, threw |-> TRUE]
        ELSE IF includes(name.v, <<".">>)
        THEN [index |-> mapSet(byModule, toLowerCase(lastSegment(name.v)), entry),
              threw |-> FALSE]
        ELSE [index |-> byModule, threw |-> FALSE]

\* the JSON portion of an item, from its first "{" to its last "}"; found is
\* FALSE where the code returns before it parses
jsonPortion(docContent) ==
    LET content   == trim(docContent)
        jsonStart == indexOf(content, <<"{">>)
        jsonEnd   == lastIndexOf(content, <<"}">>)
    IN  IF jsonStart = -1 THEN [found |-> FALSE]
        ELSE IF jsonEnd = -1 \/ jsonEnd <= jsonStart THEN [found |-> FALSE]
        ELSE [found |-> TRUE, str |-> substring(content, jsonStart, jsonEnd + 1)]

\* deprecationManager.analyzeContent(name, description), of the deprecation
\* manager: it accepts any name and description and returns its finding or none;
\* it does not raise
analyzeContent(name, description) == [threw |-> FALSE]

\* the body of the try block for one item: the index it leaves and whether it threw
indexDoc(index, doc) ==
    LET portion == jsonPortion(doc.content)
        parsed  == JSONparse(portion.str)
        data    == get(parsed.value, K_data)
        attrs   == get(data, K_attributes)
        name    == jsOr(get(attrs, K_name), get(attrs, K_shortname))
    IN  IF ~portion.found THEN [index |-> index, threw |-> FALSE]
        ELSE IF ~parsed.ok THEN [index |-> index, threw |-> TRUE]
        ELSE IF ~(truthy(data) /\ truthy(attrs)) THEN [index |-> index, threw |-> FALSE]
        ELSE IF ~truthy(name) THEN [index |-> index, threw |-> FALSE]
        ELSE IF analyzeContent(name, get(attrs, K_description)).threw
        THEN [index |-> index, threw |-> TRUE]
        ELSE registerEntry(index, name, attrs, apiEntry(name, data, attrs))

\* a mutant of indexDocs: no try/catch, the first error ends the loop and is raised
RECURSIVE indexDocsUncaught(_, _, _)
indexDocsUncaught(index, docs, k) ==
    IF k > Len(docs) THEN [index |-> index, raised |-> FALSE]
    ELSE LET r == indexDoc(index, docs[k])
         IN  IF r.threw THEN [index |-> r.index, raised |-> TRUE]
             ELSE indexDocsUncaught(r.index, docs, k + 1)

\* apiDocs.forEach from docs[k] on: an error is caught, logged, and the loop goes on
RECURSIVE indexDocs(_, _, _)
indexDocs(index, docs, k) ==
    IF k > Len(docs) THEN [index |-> index, raised |-> FALSE]
    ELSE indexDocs(indexDoc(index, docs[k]).index, docs, k + 1)

\* indexApiDocs() on the sections held: the index it leaves and whether it raised
indexApiDocs(index, secs) == indexDocs(index, sectionItems(secs, S_apiDocs), 1)

(***************************************************************************)
(* The title extractor: DocumentationService.extractTitle                  *)
(***************************************************************************)
S_title == <<"t","i","t","l","e",":">>

S_untitled == <<"U","n","t","i","t","l","e","d">>

S_http == <<"h","t","t","p",":","/","/">>

S_https == <<"h","t","t","p","s",":","/","/">>

\* the grave accent, written by name because the character cannot appear in a TLA+ string
Grave == "grave"

S_fence == <<Grave, Grave, Grave>>

S_dataKey == <<"\"","d","a","t","a","\"">>

IsQuote(c) == c \in {"\"", "'"}

\* the literal prefixes of the case-insensitive genericPatterns, lower-cased
GenericPrefixes ==
    {<<"f","o","r"," ","a","l","l">>,
     <<"f","o","r"," ","a","n","y">>,
     <<"f","o","r"," ","m","o","s","t">>,
     <<"f","o","r"," ","s","o","m","e">>,
     <<"i","n"," ","t","h","i","s">>,
     <<"i","n"," ","t","h","e","s","e">>,
     <<"i","n"," ","a","l","l">>,
     <<"i","n"," ","a","n","y">>,
     <<"w","i","t","h"," ","t","h","i","s">>,
     <<"w","i","t","h"," ","t","h","e","s","e">>,
     <<"w","i","t","h"," ","a","l","l">>,
     <<"w","i","t","h"," ","a","n","y">>,
     <<"u","s","i","n","g"," ","t","h","i","s">>,
     <<"u","s","i","n","g"," ","t","h","e","s","e">>,
     <<"u","s","i","n","g"," ","a","l","l">>,
     <<"u","s","i","n","g"," ","a","n","y">>,
     <<"n","o","t","e",":">>,
     <<"w","a","r","n","i","n","g",":">>,
     <<"t","i","p",":">>,
     <<"i","m","p","o","r","t","a","n","t",":">>,
     <<"h","e","r","e"," ","i","s">>,
     <<"h","e","r","e"," ","a","r","e">>,
     <<"t","h","e","r","e"," ","i","s">>,
     <<"t","h","e","r","e"," ","a","r","e">>,
     <<"t","h","i","s"," ","i","s">>,
     <<"t","h","i","s"," ","a","r","e">>,
     <<"t","h","a","t"," ","i","s">>,
     <<"t","h","a","t"," ","a","r","e">>,
     <<"h","t","t","p",":","/","/">>,
     <<"h","t","t","p","s",":","/","/">>}

\* the generic patterns on the text t and its lower-cased form
isGenericLowered(t, lower) ==
    \/ \E g \in GenericPrefixes : startsWith(lower, g)
    \/ (Len(t) >= 1 /\ \A i \in 1..Len(t) : IsDigit(t[i]) \/ t[i] = ".")
    \/ (Len(t) >= 2 /\ t[1] \in {"-", "*", "+"} /\ IsSpace(t[2]))

\* genericPatterns.some(pattern => pattern.test(t))
isGeneric(t) == isGenericLowered(t, toLowerCase(t))

\* the first position >= p (zero-based) of s that holds a newline, Len(s) if none
nextNewline(s, p) ==
    IF \E q \in p..(Len(s) - 1) : s[q + 1] = NL
    THEN CHOOSE q \in p..(Len(s) - 1) :
            s[q + 1] = NL /\ \A r \in p..(q - 1) : s[r + 1] # NL
    ELSE Len(s)

\* the characters of s in [p, q) are all white space
blankBetween(s, p, q) == \A r \in p..(q - 1) : IsSpace(s[r + 1])

\* the end (exclusive) of the run of characters satisfying [^"'\n] that starts at p
RECURSIVE captureEnd(_, _)
captureEnd(s, p) ==
    IF p < Len(s) /\ ~IsQuote(s[p + 1]) /\ s[p + 1] # NL
    THEN captureEnd(s, p + 1)
    ELSE p

\* the rest of the front-matter pattern from a "title:" at zero-based position t:
\* title:\s*["']?([^"'\n]+)["']?\s*\n(?:.*\n)*?---  (greedy choices only)
titleFieldAt(s, t) ==
    LET a == skipSpace(s, t + Len(S_title) + 1) - 1
        b == IF a < Len(s) /\ IsQuote(s[a + 1]) THEN a + 1 ELSE a
        e == captureEnd(s, b)
        f == IF e < Len(s) /\ IsQuote(s[e + 1]) THEN e + 1 ELSE e
        g == nextNewline(s, f)
    IN  IF /\ occursAt(toLowerCase(s), S_title, t)
           /\ e > b
           /\ g < Len(s)
           /\ blankBetween(s, f, g)
           /\ \E u \in (g + 1)..Len(s) : s[u] = NL /\ occursAt(s, <<"-","-","-">>, u)
        THEN [found |-> TRUE, title |-> trim(substring(s, b, e))]
        ELSE [found |-> FALSE]

\* content.match(/^---\s*\n(?:.*\n)*?title:\s*["']?([^"'\n]+)["']?\s*\n(?:.*\n)*?---/i)
frontmatterTitle(s) ==
    LET n1 == nextNewline(s, 3)
        starts == {t \in (n1 + 1)..Len(s) : s[t] = NL /\ titleFieldAt(s, t).found}
    IN  IF /\ occursAt(s, <<"-","-","-">>, 0)
           /\ n1 < Len(s)
           /\ blankBetween(s, 3, n1)
           /\ starts # {}
        THEN titleFieldAt(s, CHOOSE t \in starts : \A u \in starts : t <= u)
        ELSE [found |-> FALSE]

\* the number of "#" that open the line
RECURSIVE hashes(_)
hashes(line) ==
    IF line # <<>> /\ Head(line) = "#" THEN 1 + hashes(Tail(line)) ELSE 0

\* line.match(/^#+\s+(.+)$/): the trimmed header text
headerTitle(line) ==
    LET h == hashes(line)
    IN  IF h >= 1 /\ Len(line) >= h + 2 /\ IsSpace(line[h + 1])
        THEN [found |-> TRUE, title |-> trim(SubSeq(line, h + 1, Len(line)))]
        ELSE [found |-> FALSE]

\* the first header line whose text is not generic and longer than 3 characters
RECURSIVE firstHeaderTitle(_, _)
headerOrNext(m, lines, k) ==
    IF m.found /\ ~isGeneric(m.title) /\ Len(m.title) > 3
    THEN m
    ELSE firstHeaderTitle(lines, k + 1)

firstHeaderTitle(lines, k) ==
    IF k > Len(lines) THEN [found |-> FALSE]
    ELSE headerOrNext(headerTitle(lines[k]), lines, k)

\* "if (parsed.data?.attributes?.name) return parsed.data.attributes.name"
titleOfName(name) ==
    IF truthy(name) THEN [found |-> TRUE, title |-> name.v] ELSE [found |-> FALSE]

\* JSON.parse of the matched text, and data.attributes.name of the value
jsonNameOf(parsed) ==
    IF parsed.ok
    THEN titleOfName(get(get(get(parsed.value, K_data), K_attributes), K_name))
    ELSE [found |-> FALSE]

\* content.match(/\{[\s\S]*"data"[\s\S]*\}/): from the first "{" to the last "}"
jsonMatch(s, p, q) ==
    IF /\ p # -1
       /\ \E d \in (p + 1)..q : occursAt(s, S_dataKey, d) /\ d + Len(S_dataKey) <= q
    THEN jsonNameOf(JSONparse(substring(s, p, q + 1)))
    ELSE [found |-> FALSE]

jsonName(s) == jsonMatch(s, indexOf(s, <<"{">>), lastIndexOf(s, <<"}">>))

\* trimmed.match(/^([^.!?]+[.!?])/): the end (exclusive) of the first sentence, 0 if none
sentenceEnd(t) ==
    IF \E e \in 2..Len(t) : t[e] \in {".", "!", "?"}
                            /\ \A r \in 1..(e - 1) : t[r] \notin {".", "!", "?"}
    THEN CHOOSE e \in 2..Len(t) : t[e] \in {".", "!", "?"}
                                  /\ \A r \in 1..(e - 1) : t[r] \notin {".", "!", "?"}
    ELSE 0

\* the sentence of a qualifying line, cut at 100 characters
sentenceOf(t, e) ==
    IF e > 0 THEN substring(trim(substring(t, 0, e)), 0, 100) ELSE substring(t, 0, 100)

\* the line is skipped by the fallback loop
isSkipped(t) ==
    \/ t = <<>>
    \/ (\A i \in 1..Len(t) : t[i] \in {"-", "="})
    \/ startsWith(t, <<"{">>)
    \/ startsWith(t, <<"[">>)
    \/ startsWith(t, S_fence)
    \/ startsWith(t, S_http) \/ startsWith(t, S_https)
    \/ isGeneric(t)

\* "find first meaningful sentence or phrase", from lines[k] on
RECURSIVE fallbackTitle(_, _)
fallbackLine(t, lines, k) ==
    IF ~isSkipped(t) /\ Len(t) > 10 THEN sentenceOf(t, sentenceEnd(t))
    ELSE fallbackTitle(lines, k + 1)

fallbackTitle(lines, k) ==
    IF k > Len(lines) THEN S_untitled ELSE fallbackLine(trim(lines[k]), lines, k)

\* the title of the first resolution step that finds one
firstFound(frontmatter, header, record, fallback) ==
    IF frontmatter.found THEN frontmatter.title
    ELSE IF header.found THEN header.title
    ELSE IF record.found THEN record.title
    ELSE fallback

titleOfLines(content, lines) ==
    firstFound(frontmatterTitle(content), firstHeaderTitle(lines, 1), jsonName(content),
               fallbackTitle(lines, 1))

\* extractTitle(content)
extractTitle(content) == titleOfLines(content, split(content, NL))

(***************************************************************************)
(* The excerpt extractor: DocumentationService.extractExcerpt, as it runs  *)
(* when no term positions are supplied (termPositions empty or missing):   *)
(* the window around the first term that occurs, then the first paragraph. *)
(***************************************************************************)
S_noPreview ==
    <<"N","o"," ","p","r","e","v","i","e","w"," ","a","v","a","i","l","a","b","l","e">>

S_apiData ==
    <<"[","A","P","I"," ","D","a","t","a","]">>

S_codeExample ==
    <<"[","C","o","d","e"," ","E","x","a","m","p","l","e","]">>

S_ellipsis == <<".", ".", ".">>

\* s.indexOf(t, from)
indexOfFrom(s, t, from) ==
    IF \E p \in from..Len(s) : occursAt(s, t, p)
    THEN CHOOSE p \in from..Len(s) :
            /\ occursAt(s, t, p)
            /\ \A q \in from..(p - 1) : ~occursAt(s, t, q)
    ELSE -1

\* the end (exclusive) of the leftmost match of open[\s\S]*?mid[\s\S]*?close that
\* starts at the first open, at zero-based p; -1 if there is none
blockEnd(s, p, open, mid, close) ==
    LET d == IF p = -1 THEN -1 ELSE indexOfFrom(s, mid, p + Len(open))
        c == IF d = -1 THEN -1 ELSE indexOfFrom(s, close, d + Len(mid))
    IN  IF c = -1 THEN -1 ELSE c + Len(close)

\* s.replace(/open[\s\S]*?mid[\s\S]*?close/g, placeholder)
RECURSIVE replaceBlocks(_, _, _, _, _)
replaceFrom(s, p, e, open, mid, close, placeholder) ==
    IF e = -1 THEN s
    ELSE substring(s, 0, p) \o placeholder
         \o replaceBlocks(substring(s, e, Len(s)), open, mid, close, placeholder)

replaceBlocks(s, open, mid, close, placeholder) ==
    replaceFrom(s, indexOf(s, open), blockEnd(s, indexOf(s, open), open, mid, close),
                open, mid, close, placeholder)

\* the two replacements and the trim of the term branch
cleanExcerpt(excerpt) ==
    trim(replaceBlocks(replaceBlocks(excerpt, <<"{">>, S_dataKey, <<"}">>, S_apiData),
                       S_fence, <<>>, S_fence, S_codeExample))

\* the window from 100 characters before the term to 300 characters after its start
termExcerpt(content, termIndex) ==
    LET start == IF termIndex - 100 > 0 THEN termIndex - 100 ELSE 0
        end == Min(Len(content), termIndex + 300)
    IN  cleanExcerpt((IF start > 0 THEN S_ellipsis ELSE <<>>)
                     \o substring(content, start, end)
                     \o (IF end < Len(content) THEN S_ellipsis ELSE <<>>))

\* "for (const term of searchTerms)": the excerpt of the first term found in the
\* lower-cased content, from searchTerms[k] on
RECURSIVE firstTermExcerpt(_, _, _, _)
firstTermExcerpt(content, contentLower, searchTerms, k) ==
    IF k > Len(searchTerms) THEN [found |-> FALSE]
    ELSE IF indexOf(contentLower, searchTerms[k]) # -1
    THEN [found |-> TRUE,
          excerpt |-> termExcerpt(content, indexOf(contentLower, searchTerms[k]))]
    ELSE firstTermExcerpt(content, contentLower, searchTerms, k + 1)

\* a mutant of isParagraph: the test of the length is left out
isParagraphOfAnyLength(trimmed) ==
    /\ trimmed # <<>>
    /\ trimmed[1] \notin {"#", "-", "="}
    /\ ~startsWith(trimmed, <<"{">>)

\* the test of the final fallback on a trimmed line
isParagraph(trimmed) ==
    /\ trimmed # <<>>
    /\ trimmed[1] \notin {"#", "-", "="}
    /\ ~startsWith(trimmed, <<"{">>)
    /\ Len(trimmed) > 30

\* "get first meaningful paragraph", from lines[k] on
RECURSIVE firstParagraph(_, _)
firstParagraph(lines, k) ==
    IF k > Len(lines) THEN S_noPreview
    ELSE IF isParagraph(trim(lines[k])) THEN substring(trim(lines[k]), 0, 350)
    ELSE firstParagraph(lines, k + 1)

\* what extractExcerpt returns once the term search has ended
excerptOr(term, content) ==
    IF term.found THEN term.excerpt ELSE firstParagraph(split(content, NL), 1)

\* extractExcerpt(content, searchTerms, termPositions) for empty termPositions
excerptWithoutPositions(content, searchTerms) ==
    excerptOr(firstTermExcerpt(content, toLowerCase(content), searchTerms, 1), content)

(***************************************************************************)
(* Search results.  A result is a record with the fields the rankers and   *)
(* the merger read and write; a field that the JavaScript object does not  *)
(* have (undefined) holds NoScore or FALSE.  excerpt, apiLink and          *)
(* deprecationInfo take no part in ranking, filtering or merging and are   *)
(* left out.                                                               *)
(***************************************************************************)
NoScore == -1

S_all == <<"a","l","l">>

S_api == <<"a","p","i">>

S_guides == <<"g","u","i","d","e","s">>

S_community == <<"c","o","m","m","u","n","i","t","y">>

CatApi == "API Documentation"

CatCommunity == "Community Articles"

CatGuides == "Guides & Tutorials"

categorizeSectionName(sectionName) ==
    IF sectionName = S_apiDocs THEN CatApi
    ELSE IF sectionName = S_communityBloggers THEN CatCommunity
    ELSE CatGuides

\* url-builder.js is not among the sources: the URL is a function of the
\* section name and the title, the two arguments of every call
generateUrl(sectionName, title) == sectionName \o <<"/">> \o title

\* Array.prototype.sort with the comparator (a, b) => key(b) - key(a), where
\* keys[i] is the key of seq[i]: stable, descending
sortDescBy(seq, keys) ==
    LET n == Len(seq)
        rank(i) == Cardinality({j \in 1..n : keys[j] > keys[i]
                                              \/ (keys[j] = keys[i] /\ j < i)}) + 1
    IN  [p \in 1..n |-> seq[CHOOSE i \in 1..n : rank(i) = p]]

\* Array.prototype.slice(0, limit) for limit >= 0
slice(seq, limit) == SubSeq(seq, 1, IF limit < Len(seq) THEN limit ELSE Len(seq))

(***************************************************************************)
(* The keyword ranker: DocumentationService.keywordSearch                  *)
(***************************************************************************)
EXACT_PHRASE_BONUS == 50

TITLE_MATCH_BONUS == 15

TERM_MATCH_WEIGHT == 2

ALL_TERMS_BONUS == 20

PROXIMITY_THRESHOLD == 500

PROXIMITY_BONUS_DIVISOR == 50

MIN_SCORE == 10

MIN_SCORE_SINGLE_TERM == 20

\* s.split(/\s+/).filter(term => term.length > 0)
RECURSIVE splitWhitespace(_)
splitWhitespace(s) ==
    IF s = <<>> THEN <<>>
    ELSE IF IsSpace(s[1]) THEN splitWhitespace(Tail(s))
    ELSE LET e == IF \E q \in 1..Len(s) : IsSpace(s[q])
                  THEN (CHOOSE q \in 1..Len(s) :
                            IsSpace(s[q]) /\ \A r \in 1..(q - 1) : ~IsSpace(s[r])) - 1
                  ELSE Len(s)
         IN  <<SubSeq(s, 1, e)>> \o splitWhitespace(SubSeq(s, e + 1, Len(s)))

\* new RegExp(term, "gi") for a term of letters, digits, "@", ".", "+" and "(":
\* "(" opens a group that nothing closes and "+" needs something to repeat, both a
\* SyntaxError; terms with other pattern characters are not among the inputs
regexValid(term) ==
    \A i \in 1..Len(term) :
        /\ term[i] # "("
        /\ term[i] = "+" => (i > 1 /\ term[i - 1] # "+")

\* the pattern as its atoms, each with whether "+" follows it
regexAtoms(term) ==
    LET places == {i \in 1..Len(term) : term[i] # "+"}
        place(k) == CHOOSE i \in places : Cardinality({j \in places : j <= i}) = k
    IN  [k \in 1..Cardinality(places) |->
            [ch |-> term[place(k)],
             plus |-> place(k) < Len(term) /\ term[place(k) + 1] = "+"]]

\* "." matches every character but a line terminator, any other atom itself
atomMatches(c, ch) == IF ch = "." THEN c \notin {"\n", "\r"} ELSE c = ch

\* the number of characters from zero-based position pos on that match the atom
runLength(content, ch, pos) ==
    IF \E q \in pos..(Len(content) - 1) : ~atomMatches(content[q + 1], ch)
    THEN (CHOOSE q \in pos..(Len(content) - 1) :
             /\ ~atomMatches(content[q + 1], ch)
             /\ \A r \in pos..(q - 1) : atomMatches(content[r + 1], ch)) - pos
    ELSE Len(content) - pos

\* where the match of atoms[k..] that starts at pos ends, or -1: a repeated atom
\* takes the longest run that lets the rest match
RECURSIVE matchEnd(_, _, _, _)
matchEnd(content, atoms, k, pos) ==
    IF k > Len(atoms) THEN pos
    ELSE IF pos >= Len(content) \/ ~atomMatches(content[pos + 1], atoms[k].ch) THEN -1
    ELSE IF ~atoms[k].plus THEN matchEnd(content, atoms, k + 1, pos + 1)
    ELSE LET run == runLength(content, atoms[k].ch, pos)
             ends == [n \in 1..run |-> matchEnd(content, atoms, k + 1, pos + n)]
         IN  IF \E n \in 1..run : ends[n] # -1
             THEN ends[CHOOSE n \in 1..run :
                          ends[n] # -1 /\ \A m \in (n + 1)..run : ends[m] = -1]
             ELSE -1

\* the first position at or after p where the pattern matches, or -1
indexFrom(content, atoms, p) ==
    IF \E q \in p..Len(content) : matchEnd(content, atoms, 1, q) # -1
    THEN CHOOSE q \in p..Len(content) :
            /\ matchEnd(content, atoms, 1, q) # -1
            /\ \A r \in p..(q - 1) : matchEnd(content, atoms, 1, r) = -1
    ELSE -1

\* the matches of the pattern found one after the other from position p on
RECURSIVE countAtoms(_, _, _)
countFrom(content, atoms, q) ==
    IF q = -1 THEN 0 ELSE 1 + countAtoms(content, atoms, matchEnd(content, atoms, 1, q))

countAtoms(content, atoms, p) == countFrom(content, atoms, indexFrom(content, atoms, p))

\* (content.match(new RegExp(term, "gi")) || []).length; content and term are in
\* lower case already
countMatches(content, term, p) == countAtoms(content, regexAtoms(term), p)

\* the body of the forEach callback, given the number of matches and the first position
scoreMatched(acc, titleLower, term, matches, pos) ==
    IF matches > 0
    THEN [score |-> acc.score
                    + (IF includes(titleLower, term) THEN TITLE_MATCH_BONUS ELSE 0)
                    + matches * TERM_MATCH_WEIGHT,
          matchedTerms |-> Append(acc.matchedTerms, term),
          termPositions |-> IF pos # -1
                            THEN Append(acc.termPositions, pos)
                            ELSE acc.termPositions]
    ELSE acc

\* one pass of searchTerms.forEach over acc = [score, matchedTerms, termPositions]
scoreTerm(acc, content, titleLower, term) ==
    scoreMatched(acc, titleLower, term, countMatches(content, term, 0),
                 indexOf(content, term))

RECURSIVE scoreTerms(_, _, _, _, _)
scoreTerms(acc, content, titleLower, searchTerms, k) ==
    IF k > Len(searchTerms) THEN acc
    ELSE scoreTerms(scoreTerm(acc, content, titleLower, searchTerms[k]),
                    content, titleLower, searchTerms, k + 1)

\* the exact-phrase step
scorePhrase(content, queryLower) ==
    IF includes(content, queryLower)
    THEN [score |-> EXACT_PHRASE_BONUS, matchedTerms |-> <<queryLower>>,
          termPositions |-> <<>>]
    ELSE [score |-> 0, matchedTerms |-> <<>>, termPositions |-> <<>>]

SeqMax(seq) == CHOOSE m \in Range(seq) : \A x \in Range(seq) : x <= m

SeqMin(seq) == CHOOSE m \in Range(seq) : \A x \in Range(seq) : m <= x

\* the proximity bonus for the first positions of the matched terms
proximityBonus(spread) ==
    IF spread < PROXIMITY_THRESHOLD
    THEN (PROXIMITY_THRESHOLD - spread) \div PROXIMITY_BONUS_DIVISOR
    ELSE 0

\* the all-terms step, with its proximity bonus
scoreAllTerms(acc, searchTerms) ==
    IF Len(acc.matchedTerms) = Len(searchTerms)
    THEN [acc EXCEPT !.score =
             @ + ALL_TERMS_BONUS
               + (IF Len(acc.termPositions) > 1
                  THEN proximityBonus(SeqMax(acc.termPositions) - SeqMin(acc.termPositions))
                  ELSE 0)]
    ELSE acc

\* the scoring steps on the lower-cased content, title and query
scoreLowered(content, titleLower, queryLower, searchTerms) ==
    scoreAllTerms(scoreTerms(scorePhrase(content, queryLower),
                             content, titleLower, searchTerms, 1),
                  searchTerms)

\* the relevance of one item for a query: [score, matchedTerms, termPositions]
scoreItem(itemContent, title, query) ==
    scoreLowered(toLowerCase(itemContent), toLowerCase(title), toLowerCase(query),
                 splitWhitespace(toLowerCase(query)))

\* "only include results with meaningful matches"
passesGate(sc) ==
    /\ sc.score >= MIN_SCORE
    /\ (Len(sc.matchedTerms) >= 2 \/ sc.score >= MIN_SCORE_SINGLE_TERM)

\* a mutant of sectionsToSearch: the category is ignored
sectionsToSearchAll(secs, category) == [i \in 1..Len(secs) |-> secs[i].name]

\* the names of the sections a category selects, in iteration order
sectionsToSearch(secs, category) ==
    LET keys == [i \in 1..Len(secs) |-> secs[i].name]
    IN  IF category = S_all THEN keys
        ELSE IF category = S_api THEN <<S_apiDocs>>
        ELSE IF category = S_guides
        THEN SelectSeq(keys, LAMBDA n : n \notin {S_apiDocs, S_communityBloggers})
        ELSE IF category = S_community THEN <<S_communityBloggers>>
        ELSE <<>>

keywordResult(sectionName, title, sc, query) ==
    [title |-> title,
     category |-> categorizeSectionName(sectionName),
     score |-> sc.score,
     keywordScore |-> sc.score,
     semanticScore |-> NoScore,
     url |-> generateUrl(sectionName, title),
     matchedTerms |-> Len(sc.matchedTerms),
     totalTerms |-> Len(splitWhitespace(toLowerCase(query))),
     searchType |-> "keyword",
     hybridScore |-> NoScore,
     hasKeywordMatch |-> FALSE,
     hasSemanticMatch |-> FALSE]

\* the result of one item, if it passes the gate
gatedResult(sectionName, title, sc, query) ==
    IF passesGate(sc) THEN <<keywordResult(sectionName, title, sc, query)>> ELSE <<>>

\* the body of "for (const item of sectionItems)"
itemResult(sectionName, itemContent, title, query) ==
    gatedResult(sectionName, title, scoreItem(itemContent, title, query), query)

\* the results of the items [k..] of one section
RECURSIVE keywordItems(_, _, _, _)
keywordItems(sectionName, items, query, k) ==
    IF k > Len(items) THEN <<>>
    ELSE itemResult(sectionName, items[k].content, extractTitle(items[k].content), query)
         \o keywordItems(sectionName, items, query, k + 1)

\* the results of the sections names[k..]
RECURSIVE keywordSections(_, _, _, _)
keywordSections(secs, names, query, k) ==
    IF k > Len(names) THEN <<>>
    ELSE keywordItems(names[k], sectionItems(secs, names[k]), query, 1)
         \o keywordSections(secs, names, query, k + 1)

\* whether keywordSearch raises: the pattern of a term is built inside the loop over
\* the items, so a term that is no pattern raises at the first item scanned
keywordThrows(secs, query, category) ==
    /\ \E term \in Range(splitWhitespace(toLowerCase(query))) : ~regexValid(term)
    /\ \E name \in Range(sectionsToSearch(secs, category)) :
          Len(sectionItems(secs, name)) > 0

\* a mutant of keywordSearch: the results are cut to the limit in discovery order
keywordSearchUnsorted(secs, query, category, limit) ==
    slice(keywordSections(secs, sectionsToSearch(secs, category), query, 1), limit)

keywordSearch(secs, query, category, limit) ==
    LET results == keywordSections(secs, sectionsToSearch(secs, category), query, 1)
    IN  slice(sortDescBy(results, [i \in 1..Len(results) |-> results[i].score]), limit)

(***************************************************************************)
(* The hybrid merger: DocumentationService.mergeSearchResults.             *)
(* The weights 0.6 and 0.4 are kept exact by counting hybrid scores in     *)
(* tenths: hybridScore, and the score of a merged result, are ten times    *)
(* the JavaScript number.                                                  *)
(***************************************************************************)
KeywordWeightTenths == 6

SemanticWeightTenths == 4

\* the least semantic score (a similarity times 100) that is kept
SemanticMinScore == 10

\* a || b on scores: 0 and undefined are falsy
orScore(a, b) == IF a # NoScore /\ a # 0 THEN a ELSE b

\* result.title + result.url
mergeKey(result) == result.title \o result.url

mapHas(map, key) == \E i \in 1..Len(map) : map[i].key = key

mapIndex(map, key) == CHOOSE i \in 1..Len(map) : map[i].key = key

\* Map.prototype.set: a new key goes last, an existing key keeps its place
resultMapSet(map, key, value) ==
    IF mapHas(map, key)
    THEN [map EXCEPT ![mapIndex(map, key)].value = value]
    ELSE Append(map, [key |-> key, value |-> value])

\* keywordResults.forEach(...), from result k on
RECURSIVE mergeKeyword(_, _, _)
mergeKeyword(map, keywordResults, k) ==
    IF k > Len(keywordResults) THEN map
    ELSE LET result == keywordResults[k]
         IN  mergeKeyword(
                 resultMapSet(map, mergeKey(result),
                     [result EXCEPT
                         !.hybridScore = orScore(result.keywordScore, result.score)
                                         * KeywordWeightTenths,
                         !.hasKeywordMatch = TRUE]),
                 keywordResults, k + 1)

\* one pass of semanticResults.forEach(...)
mergeSemanticOne(map, result) ==
    LET key == mergeKey(result)
        add == orScore(result.semanticScore, result.score) * SemanticWeightTenths
    IN  IF mapHas(map, key)
        THEN [map EXCEPT ![mapIndex(map, key)].value =
                 [@ EXCEPT !.hybridScore = @ + add,
                           !.hasSemanticMatch = TRUE,
                           !.searchType = "hybrid"]]
        ELSE Append(map, [key |-> key,
                          value |-> [result EXCEPT !.hybridScore = add,
                                                   !.hasSemanticMatch = TRUE]])

RECURSIVE mergeSemantic(_, _, _)
mergeSemantic(map, semanticResults, k) ==
    IF k > Len(semanticResults) THEN map
    ELSE mergeSemantic(mergeSemanticOne(map, semanticResults[k]), semanticResults, k + 1)

\* "merged.forEach(result => result.score = result.hybridScore)" and the sort
rankMerged(map) ==
    sortDescBy([i \in 1..Len(map) |->
                   [map[i].value EXCEPT !.score = map[i].value.hybridScore]],
               [i \in 1..Len(map) |-> map[i].value.hybridScore])

mergeSearchResults(keywordResults, semanticResults) ==
    rankMerged(mergeSemantic(mergeKeyword(<<>>, keywordResults, 1), semanticResults, 1))

(***************************************************************************)
(* The embedding service (EmbeddingService) and the semantic ranker.       *)
(* The model that turns a text into a vector is outside the program: its   *)
(* output is any vector of the set pipeline, or a failure.  The vectors    *)
(* have integral length, so that a similarity times 100 is a whole number. *)
(***************************************************************************)
Vectors == {<<1, 0>>, <<3, 4>>}

NoEmbedding == [ok |-> FALSE]

Embedding(v) == [ok |-> TRUE, vec |-> v]

\* the printable ASCII characters from the space (code 32) to "~" (code 126)
Ascii ==
    <<" ", "!", "\"", "#", "$", "%", "&", "'", "(", ")", "*", "+", ",", "-", ".", "/",
      "0", "1", "2", "3", "4", "5", "6", "7", "8", "9", ":", ";", "<", "=", ">", "?",
      "@", "A", "B", "C", "D", "E", "F", "G", "H", "I", "J", "K", "L", "M", "N", "O",
      "P", "Q", "R", "S", "T", "U", "V", "W", "X", "Y", "Z", "[", "\\", "]", "^", "_",
      Grave, "a", "b", "c", "d", "e", "f", "g", "h", "i", "j", "k", "l", "m", "n", "o",
      "p", "q", "r", "s", "t", "u", "v", "w", "x", "y", "z", "{", "|", "}", "~">>

\* String.prototype.charCodeAt for one character
charCode(c) ==
    IF c = NL THEN 10
    ELSE IF c = "\t" THEN 9
    ELSE (CHOOSE i \in 1..Len(Ascii) : Ascii[i] = c) + 31

\* a 32-bit word is held as its two 16-bit halves [hi, lo]: the numbers of the
\* model checker are 32 bits wide and cannot hold the intermediate products
HalfWord == 65536

\* the product of two 16-bit numbers, as a word
mul16(x, y) ==
    LET mid == (x \div 256) * (y % 256) + (x % 256) * (y \div 256)
        low == (x % 256) * (y % 256) + (mid % 256) * 256
    IN  [hi |-> ((x \div 256) * (y \div 256) + mid \div 256 + low \div HalfWord) % HalfWord,
         lo |-> low % HalfWord]

\* the product and the sum of two words, modulo 2^32
mul32(x, y) ==
    [hi |-> (mul16(x.hi, y.lo).lo + mul16(x.lo, y.hi).lo + mul16(x.lo, y.lo).hi) % HalfWord,
     lo |-> mul16(x.lo, y.lo).lo]

add32(x, y) ==
    [hi |-> (x.hi + y.hi + (x.lo + y.lo) \div HalfWord) % HalfWord,
     lo |-> (x.lo + y.lo) % HalfWord]

\* 31^k modulo 2^32
RECURSIVE pow31(_)
pow31(k) ==
    IF k = 0 THEN [hi |-> 0, lo |-> 1]
    ELSE IF k % 2 = 0 THEN mul32(pow31(k \div 2), pow31(k \div 2))
    ELSE mul32(pow31(k - 1), [hi |-> 0, lo |-> 31])

\* the value the loop "hash = ((hash << 5) - hash) + char; hash = hash & hash"
\* leaves after the characters a..b, started from 0: each pass maps hash to
\* 31 * hash + char modulo 2^32, so the passes over a..m followed by those over
\* m+1..b leave hash(a..m) * 31^(b-m) + hash(m+1..b)
RECURSIVE hashRange(_, _, _)
hashRange(text, a, b) ==
    IF a > b THEN [hi |-> 0, lo |-> 0]
    ELSE IF a = b THEN [hi |-> 0, lo |-> charCode(text[a])]
    ELSE add32(mul32(hashRange(text, a, (a + b) \div 2), pow31(b - (a + b) \div 2)),
               hashRange(text, (a + b) \div 2 + 1, b))

\* getCacheKey(text); the base-36 rendering of the hash is one-to-one and is left out
getCacheKey(text) == hashRange(text, 1, Min(Len(text), 500))

\* this.embeddingCache is a Map read and written by key only: a set of [key, value]
cacheHas(cache, key) == \E e \in cache : e.key = key

cacheGet(cache, key) == (CHOOSE e \in cache : e.key = key).value

\* the state the EmbeddingService constructor leaves
NewEmbeddingService == [embedder |-> FALSE, embeddingCache |-> {}, initialized |-> FALSE]

\* initialize(): the states it can leave, as loading the model succeeds or fails
initialize(svc) ==
    IF svc.initialized THEN {svc}
    ELSE {[svc EXCEPT !.embedder = TRUE, !.initialized = TRUE],
          [svc EXCEPT !.initialized = FALSE]}

\* the cache lookup and the model call of embed, for the key of the text
embedKeyed(svc, cacheKey) ==
    IF cacheHas(svc.embeddingCache, cacheKey)
    THEN {[svc |-> svc, result |-> cacheGet(svc.embeddingCache, cacheKey)]}
    ELSE {[svc |-> [svc EXCEPT !.embeddingCache =
                       @ \cup {[key |-> cacheKey, value |-> Embedding(v)]}],
           result |-> Embedding(v)] : v \in pipeline}
         \cup {[svc |-> svc, result |-> NoEmbedding]}

\* a mutant of embedReady: the model is called without the check of this.embedder
embedReadyWithoutModel(svc, text) == embedKeyed(svc, getCacheKey(text))

\* embed(text) on a service already past initialize(): [svc, result]
embedReady(svc, text) ==
    IF ~svc.embedder THEN {[svc |-> svc, result |-> NoEmbedding]}
    ELSE embedKeyed(svc, getCacheKey(text))

\* embed(text): every [svc, result] it can end with
embed(svc, text) ==
    UNION {embedReady(s, text) : s \in IF svc.initialized THEN {svc} ELSE initialize(svc)}

isqrt(n) == CHOOSE r \in 0..n : r * r <= n /\ (r + 1) * (r + 1) > n

RECURSIVE dot(_, _, _)
dot(a, b, i) == IF i > Len(a) THEN 0 ELSE a[i] * b[i] + dot(a, b, i + 1)

\* dotProduct / magnitude, times 100
similarityOf(dotProduct, magnitude) ==
    IF magnitude = 0 THEN [threw |-> FALSE, value |-> 0]
    ELSE [threw |-> FALSE, value |-> (100 * dotProduct) \div magnitude]

\* a mutant of cosineSimilarity: the lengths are not compared, and the loop runs
\* over the positions that both vectors have
cosineSimilarityUnchecked(embedding1, embedding2) ==
    LET n == Min(Len(embedding1), Len(embedding2))
    IN  similarityOf(dot(SubSeq(embedding1, 1, n), SubSeq(embedding2, 1, n), 1),
                     isqrt(dot(SubSeq(embedding1, 1, n), SubSeq(embedding1, 1, n), 1))
                     * isqrt(dot(SubSeq(embedding2, 1, n), SubSeq(embedding2, 1, n), 1)))

\* cosineSimilarity(embedding1, embedding2), times 100
cosineSimilarity(embedding1, embedding2) ==
    IF Len(embedding1) # Len(embedding2) THEN [threw |-> TRUE]
    ELSE similarityOf(dot(embedding1, embedding2, 1),
                      isqrt(dot(embedding1, embedding1, 1))
                      * isqrt(dot(embedding2, embedding2, 1)))

\* the loop "for (const doc of documents)" of findSimilar over documents[k..]:
\* every [svc, results] it can end with; a document whose embedding is null is skipped
RECURSIVE similarDocs(_, _, _, _)
similarDocs(svc, queryEmbedding, documents, k) ==
    IF k > Len(documents) THEN {[svc |-> svc, results |-> <<>>]}
    ELSE UNION {{[svc |-> rest.svc,
                  results |-> (IF o.result.ok
                               THEN <<[similarity |->
                                          cosineSimilarity(queryEmbedding,
                                                           o.result.vec).value,
                                       metadata |-> documents[k].metadata]>>
                               ELSE <<>>) \o rest.results] :
                    rest \in similarDocs(o.svc, queryEmbedding, documents, k + 1)} :
                o \in embed(svc, documents[k].text)}

\* findSimilar once the embedding of the query has arrived
findSimilarScored(q, documents, topK) ==
    IF ~q.result.ok THEN {[svc |-> q.svc, results |-> <<>>]}
    ELSE {[svc |-> d.svc,
           results |-> slice(sortDescBy(d.results,
                                        [i \in 1..Len(d.results) |->
                                            d.results[i].similarity]), topK)] :
             d \in similarDocs(q.svc, q.result.vec, documents, 1)}

\* findSimilar on a service already past initialize()
findSimilarReady(svc, query, documents, topK) ==
    IF ~svc.embedder THEN {[svc |-> svc, results |-> <<>>]}
    ELSE UNION {findSimilarScored(q, documents, topK) : q \in embed(svc, query)}

\* findSimilar(query, documents, topK): every [svc, results] it can end with
findSimilar(svc, query, documents, topK) ==
    UNION {findSimilarReady(s, query, documents, topK) :
              s \in IF svc.initialized THEN {svc} ELSE initialize(svc)}

\* the category filter of semanticSearch
inCategory(category, sectionName) ==
    IF category = S_all THEN TRUE
    ELSE IF category = S_api THEN sectionName = S_apiDocs
    ELSE IF category = S_community THEN sectionName = S_communityBloggers
    ELSE IF category = S_guides THEN sectionName \notin {S_apiDocs, S_communityBloggers}
    ELSE FALSE

semanticResult(item, semanticScore) ==
    [title |-> item.metadata.title,
     category |-> categorizeSectionName(item.metadata.sectionName),
     score |-> semanticScore,
     keywordScore |-> NoScore,
     semanticScore |-> semanticScore,
     url |-> generateUrl(item.metadata.sectionName, item.metadata.title),
     matchedTerms |-> NoScore,
     totalTerms |-> NoScore,
     searchType |-> "semantic",
     hybridScore |-> NoScore,
     hasKeywordMatch |-> FALSE,
     hasSemanticMatch |-> FALSE]

\* one pass of the scoring loop, then the rest of it
semanticStep(item, similarity, rest) ==
    IF similarity.threw \/ rest.threw THEN [threw |-> TRUE]
    ELSE [threw |-> FALSE,
          results |-> (IF similarity.value > SemanticMinScore
                       THEN <<semanticResult(item, similarity.value)>>
                       ELSE <<>>) \o rest.results]

\* the scoring loop of semanticSearch over filteredIndex[k..]: [threw, results]
RECURSIVE semanticLoop(_, _, _)
semanticLoop(filteredIndex, queryEmbedding, k) ==
    IF k > Len(filteredIndex) THEN [threw |-> FALSE, results |-> <<>>]
    ELSE semanticStep(filteredIndex[k],
                      cosineSimilarity(queryEmbedding, filteredIndex[k].embedding),
                      semanticLoop(filteredIndex, queryEmbedding, k + 1))

\* "results.sort((a, b) => b.semanticScore - a.semanticScore)" and the slice
rankSemantic(scored, limit) ==
    IF scored.threw THEN scored
    ELSE [threw |-> FALSE,
          results |-> slice(sortDescBy(scored.results,
                                       [i \in 1..Len(scored.results) |->
                                           scored.results[i].semanticScore]),
                            limit)]

\* semanticSearch once the query embedding has arrived: [threw, results]
semanticSearch(index, queryEmbedding, category, limit) ==
    IF ~queryEmbedding.ok THEN [threw |-> FALSE, results |-> <<>>]
    ELSE rankSemantic(
             semanticLoop(SelectSeq(index, LAMBDA item :
                                        inCategory(category, item.metadata.sectionName)),
                          queryEmbedding.vec, 1),
             limit)

\* one entry of indexItems
indexItem(sectionName, item, title) ==
    [text |-> title \o <<NL>> \o substring(item.content, 0, 1000),
     metadata |-> [sectionName |-> sectionName,
                   title |-> title,
                   fullContent |-> item.content,
                   startLine |-> item.startLine]]

\* the indexItems that buildEmbeddingIndex collects from the sections
RECURSIVE indexItemsOf(_, _, _)
indexItemsOf(secs, s, k) ==
    IF s > Len(secs) THEN <<>>
    ELSE IF k > Len(secs[s].items) THEN indexItemsOf(secs, s + 1, 1)
    ELSE <<indexItem(secs[s].name, secs[s].items[k],
                     extractTitle(secs[s].items[k].content))>>
         \o indexItemsOf(secs, s, k + 1)

(***************************************************************************)
(* The best-practices extractor: DocumentationService.getBestPractices and *)
(* extractBestPracticeSections.  pluralize is a library: plural and        *)
(* singular are what it returns for regular nouns, a final "s" added or    *)
(* removed.                                                                *)
(***************************************************************************)
MAX_BEST_PRACTICES == 5

BP_TERM_MATCH_WEIGHT == 15

BP_ALL_TERMS_BONUS == 20

BP_STRONG_KEYWORD_WEIGHT == 5

BP_WEAK_KEYWORD_WEIGHT == 2

BP_MIN_THRESHOLD == 10

\* BEST_PRACTICES_KEYWORDS.strong and .weak
StrongKeywords ==
    <<<<"b","e","s","t"," ","p","r","a","c","t","i","c","e">>,
      <<"r","e","c","o","m","m","e","n","d","e","d"," ","a","p","p","r","o","a","c","h">>,
      <<"m","o","d","e","r","n"," ","p","a","t","t","e","r","n">>,
      <<"i","d","i","o","m","a","t","i","c">>,
      <<"a","n","t","i","-","p","a","t","t","e","r","n">>,
      <<"a","v","o","i","d">>,
      <<"p","r","e","f","e","r">>,
      <<"m","i","g","r","a","t","i","o","n"," ","g","u","i","d","e">>>>

WeakKeywords ==
    <<<<"t","i","p">>,
      <<"p","e","r","f","o","r","m","a","n","c","e">>,
      <<"r","e","c","o","m","m","e","n","d","e","d">>,
      <<"s","h","o","u","l","d">>,
      <<"m","o","d","e","r","n">>>>

\* the words that mark an anti-pattern line
AntiPatternWords ==
    <<<<"a","v","o","i","d">>,
      <<"d","o","n","'","t">>,
      <<"a","n","t","i","-","p","a","t","t","e","r","n">>,
      <<"b","a","d"," ","p","r","a","c","t","i","c","e">>>>

\* pluralize.plural(word) and pluralize.singular(word) for a regular noun
plural(word) ==
    IF word # <<>> /\ word[Len(word)] = "s" THEN word ELSE word \o <<"s">>

toSingular(word) ==
    IF Len(word) > 1 /\ word[Len(word)] = "s" THEN SubSeq(word, 1, Len(word) - 1)
    ELSE word

\* the term, its singular or its plural occurs in the lower-cased text
termMatches(text, term) ==
    \/ includes(text, term)
    \/ (toSingular(term) # term /\ includes(text, toSingular(term)))
    \/ (plural(term) # term /\ includes(text, plural(term)))

\* topicLower.split(/\s+/).filter(term => term.length > 2)
topicTermsOf(topicLower) == SelectSeq(splitWhitespace(topicLower), LAMBDA t : Len(t) > 2)

\* how many of the words occur in the text
countIncluded(text, words) == Cardinality({k \in 1..Len(words) : includes(text, words[k])})

\* the relevance score of a document, from its numbers of matched terms and keywords
practiceScoreOf(matched, total, strong, weak) ==
    matched * BP_TERM_MATCH_WEIGHT
    + (IF matched = total THEN BP_ALL_TERMS_BONUS ELSE 0)
    + strong * BP_STRONG_KEYWORD_WEIGHT
    + (IF strong > 0 THEN weak * BP_WEAK_KEYWORD_WEIGHT ELSE 0)

\* matchedTerms.length for the lower-cased content of a document
matchedTermCount(content, topicTerms) ==
    Cardinality({k \in 1..Len(topicTerms) : termMatches(content, topicTerms[k])})

practiceScore(content, topicTerms) ==
    practiceScoreOf(matchedTermCount(content, topicTerms), Len(topicTerms),
                    countIncluded(content, StrongKeywords),
                    countIncluded(content, WeakKeywords))

\* the items of the sections other than "api-docs" and "community-bloggers", in
\* the order of the sections, from secs[s] on
RECURSIVE otherItems(_, _)
otherItems(secs, s) ==
    IF s > Len(secs) THEN <<>>
    ELSE (IF secs[s].name \in {S_apiDocs, S_communityBloggers} THEN <<>>
          ELSE secs[s].items) \o otherItems(secs, s + 1)

\* allSections: the community articles first, then the items of the guides
allSections(secs) == sectionItems(secs, S_communityBloggers) \o otherItems(secs, 1)

\* [...new Set(seq)]: the first occurrence of every element, in order
uniq(seq) == SelectSeq([i \in 1..Len(seq) |-> [at |-> i, v |-> seq[i]]],
                       LAMBDA e : \A j \in 1..(e.at - 1) : seq[j] # e.v)

\* the locals of extractBestPracticeSections before its loop
sectionsStart ==
    [relevantContent |-> <<>>, examples |-> <<>>, antiPatterns |-> <<>>,
     inCodeBlock |-> FALSE, currentExample |-> <<>>, foundRelevant |-> FALSE,
     stopped |-> FALSE]

\* a line that opens or closes a code block
onFence(st, line) ==
    IF ~st.inCodeBlock
    THEN [st EXCEPT !.inCodeBlock = TRUE, !.currentExample = <<line>>]
    ELSE [st EXCEPT !.inCodeBlock = FALSE,
                    !.currentExample = <<>>,
                    !.examples = IF st.foundRelevant /\ Len(st.currentExample) + 1 > 2
                                 THEN Append(@, join(Append(st.currentExample, line), NL))
                                 ELSE @]

\* lines.slice(i, i + 3).join(" ").trim(), for the line at index k (from 1)
nextLinesOf(lines, k) == trim(join(SubSeq(lines, k, Min(Len(lines), k + 2)), " "))

\* the line is collected as relevant content
isRelevantLine(line) ==
    /\ trim(line) # <<>>
    /\ ~(\A i \in 1..Len(line) : line[i] \in {"#", "-", "="})
    /\ ~startsWith(trim(line), <<"{">>)

\* the anti-pattern and the content that a line outside code blocks adds, once a
\* relevant line has been found and fewer than 50 lines are collected
onRelevant(st, lines, k, lineLower) ==
    [st EXCEPT
        !.foundRelevant = TRUE,
        !.antiPatterns =
            IF /\ \E w \in Range(AntiPatternWords) : includes(lineLower, w)
               /\ Len(nextLinesOf(lines, k)) > 10
               /\ Len(nextLinesOf(lines, k)) < 200
            THEN Append(@, nextLinesOf(lines, k))
            ELSE @,
        !.relevantContent = IF isRelevantLine(lines[k]) THEN Append(@, lines[k]) ELSE @]

\* line.match(/^# [^#]/)
isTopHeader(line) == Len(line) >= 3 /\ line[1] = "#" /\ line[2] = " " /\ line[3] # "#"

\* a line outside code blocks, where found tells whether a relevant line has been
\* found by now
onTextLine(st, lines, k, found) ==
    [(IF found /\ Len(st.relevantContent) < 50
      THEN onRelevant(st, lines, k, toLowerCase(lines[k]))
      ELSE [st EXCEPT !.foundRelevant = found])
     EXCEPT !.stopped = found /\ isTopHeader(lines[k])]

\* one pass of the loop of extractBestPracticeSections
sectionsLine(st, lines, k, topicTerms) ==
    IF startsWith(trim(lines[k]), S_fence) THEN onFence(st, lines[k])
    ELSE IF st.inCodeBlock THEN [st EXCEPT !.currentExample = Append(@, lines[k])]
    ELSE onTextLine(st, lines, k,
                    st.foundRelevant
                    \/ \E t \in 1..Len(topicTerms) :
                          termMatches(toLowerCase(lines[k]), topicTerms[t]))

RECURSIVE sectionsLoop(_, _, _, _)
sectionsLoop(st, lines, k, topicTerms) ==
    IF k > Len(lines) \/ st.stopped THEN st
    ELSE sectionsLoop(sectionsLine(st, lines, k, topicTerms), lines, k + 1, topicTerms)

\* the object that extractBestPracticeSections returns
sectionsResult(st) ==
    [content |-> trim(join(slice(st.relevantContent, 30), NL)),
     examples |-> slice(st.examples, 3),
     antiPatterns |-> slice([i \in 1..Len(uniq(st.antiPatterns)) |->
                                uniq(st.antiPatterns)[i].v], 3)]

\* extractBestPracticeSections(content, topic)
extractBestPracticeSections(content, topic) ==
    sectionsResult(sectionsLoop(sectionsStart, split(content, NL), 1, topicTermsOf(topic)))

\* the practice pushed for a document
practiceOf(title, relevantSections, score) ==
    [title |-> title,
     content |-> relevantSections.content,
     examples |-> relevantSections.examples,
     antiPatterns |-> relevantSections.antiPatterns,
     references |-> <<generateUrl(S_communityBloggers, title)>>,
     score |-> score]

\* a mutant of practiceDoc: the set of seen titles is not consulted
practiceDocKeepingDuplicates(st, doc, topicLower, topicTerms, title) ==
    [seenTitles |-> st.seenTitles \cup {toLowerCase(title)},
     practices |->
        IF extractBestPracticeSections(doc.content, topicLower).content # <<>>
        THEN Append(st.practices,
                    practiceOf(title, extractBestPracticeSections(doc.content, topicLower),
                               practiceScore(toLowerCase(doc.content), topicTerms)))
        ELSE st.practices]

\* a document that matches a term and reaches the threshold: skipped when its
\* title has been seen, else its title is recorded and its practice pushed when the
\* extracted content is not empty
practiceDoc(st, doc, topicLower, topicTerms, title) ==
    IF toLowerCase(title) \in st.seenTitles THEN st
    ELSE [seenTitles |-> st.seenTitles \cup {toLowerCase(title)},
          practices |->
             IF extractBestPracticeSections(doc.content, topicLower).content # <<>>
             THEN Append(st.practices,
                         practiceOf(title,
                                    extractBestPracticeSections(doc.content, topicLower),
                                    practiceScore(toLowerCase(doc.content), topicTerms)))
             ELSE st.practices]

\* the document passes the two tests made before its title is looked at
isCandidate(content, topicTerms) ==
    /\ matchedTermCount(content, topicTerms) > 0
    /\ practiceScore(content, topicTerms) >= BP_MIN_THRESHOLD

\* "for (const doc of allSections)", from docs[k] on
RECURSIVE practicesLoop(_, _, _, _, _)
practicesLoop(st, docs, k, topicLower, topicTerms) ==
    IF k > Len(docs) THEN st
    ELSE practicesLoop(IF isCandidate(toLowerCase(docs[k].content), topicTerms)
                       THEN practiceDoc(st, docs[k], topicLower, topicTerms,
                                        extractTitle(docs[k].content))
                       ELSE st,
                       docs, k + 1, topicLower, topicTerms)

\* the sort by score, the cut and the removal of the score
rankPractices(practices) ==
    LET top == slice(sortDescBy(practices, [i \in 1..Len(practices) |-> practices[i].score]),
                     MAX_BEST_PRACTICES)
    IN  [i \in 1..Len(top) |->
            [title |-> top[i].title, content |-> top[i].content,
             examples |-> top[i].examples, antiPatterns |-> top[i].antiPatterns,
             references |-> top[i].references]]

\* getBestPractices(topic)
getBestPractices(secs, topic) ==
    rankPractices(practicesLoop([seenTitles |-> {}, practices |-> <<>>],
                                allSections(secs), 1, toLowerCase(topic),
                                topicTermsOf(toLowerCase(topic))).practices)

(***************************************************************************)
(* State and operations                                                    *)
(***************************************************************************)
MaxParses == 2

NoPending == [active |-> FALSE]

\* the state the SearchService constructor leaves: no database, no model, embeddings
\* enabled; index and search are the positions of indexDocumentsForSearch and of
\* the search call in progress, results the list the last search returned
NewSearchService ==
    [db |-> FALSE, docs |-> 0, embedder |-> FALSE, initialized |-> FALSE,
     embeddingsEnabled |-> TRUE,
     index |-> [phase |-> "idle", todo |-> 0],
     search |-> [phase |-> "idle", maxWaits |-> 0, polls |-> 0, limit |-> 0,
                 results |-> <<>>]]

\* the state the constructor leaves, for new DocumentationService({useEmbeddings});
\* without the option the embedding service is null, and nothing uses it then
FreshServiceWith(option, outputs) ==
    /\ pipeline = outputs
    /\ documentation = Null
    /\ sections = <<>>
    /\ apiIndex = <<>>
    /\ loaded = FALSE
    /\ useEmbeddings = option
    /\ embeddingService = NewEmbeddingService
    /\ embeddingIndex = <<>>
    /\ builds = <<>>
    /\ pending = NoPending
    /\ nParse = 0
    /\ loading = 0
    /\ orama = NewSearchService
    /\ call = [op |-> "new"]
    /\ ret = Null

\* the same, where the embedder returns the vectors of Vectors
FreshService(option) == FreshServiceWith(option, Vectors)

\* parseDocumentation(text), called with the text the corpus source serves; with
\* embeddings enabled it starts buildEmbeddingIndex and does not wait for it
parseDocumentation ==
    /\ nParse < MaxParses
    /\ \E parsed \in {parseSections(sections, corpus)} :
       \E indexed \in {indexApiDocs(apiIndex, parsed)} :
           /\ sections' = parsed
           /\ apiIndex' = indexed.index
           /\ ret' = IF indexed.raised THEN "throw" ELSE "undefined"
           /\ builds' = IF useEmbeddings /\ ~indexed.raised
                        THEN Append(builds, [phase |-> "initialize", items |-> <<>>])
                        ELSE builds
    /\ nParse' = nParse + 1
    /\ call' = [op |-> "parseDocumentation"]
    /\ UNCHANGED <<corpus, pipeline, loading, orama, documentation, loaded, embeddingIndex, useEmbeddings,
                   embeddingService, pending>>

MaxLoads == 2

\* loadDocumentation() after a fetch that succeeded: the text is kept and parsed,
\* the API index is built and the service is marked loaded; retry tells whether
\* the call before this one was a load that failed
loadSucceeded ==
    \E parsed \in {parseSections(sections, corpus)} :
    \E indexed \in {indexApiDocs(apiIndex, parsed)} :
        /\ documentation' = corpus
        /\ sections' = parsed
        /\ apiIndex' = indexed.index
        /\ builds' = IF useEmbeddings /\ ~indexed.raised
                     THEN Append(builds, [phase |-> "initialize", items |-> <<>>])
                     ELSE builds
        /\ loaded' = ~indexed.raised
        /\ ret' = IF indexed.raised THEN "throw" ELSE "undefined"
        /\ call' = [op |-> "ensureLoaded", fetched |-> TRUE,
                    retry |-> call.op = "ensureLoaded" /\ ~call.fetched]

\* a mutant of loadFailed: the service is marked loaded although the fetch failed
loadFailedMarkingLoaded ==
    /\ ret' = "throw"
    /\ call' = [op |-> "ensureLoaded", fetched |-> FALSE, retry |-> FALSE]
    /\ loaded' = TRUE
    /\ UNCHANGED <<documentation, sections, apiIndex, builds>>

\* loadDocumentation() after a fetch that failed, or whose response is not OK:
\* the error is logged and thrown again
loadFailed ==
    /\ ret' = "throw"
    /\ call' = [op |-> "ensureLoaded", fetched |-> FALSE, retry |-> FALSE]
    /\ UNCHANGED <<documentation, sections, apiIndex, builds, loaded>>

\* ensureLoaded(): loadDocumentation() unless the corpus is loaded; the fetch of
\* the corpus succeeds or fails, and the steps of one load are taken together,
\* with no other load under way
ensureLoaded ==
    /\ ~loaded
    /\ loading = 0
    /\ \/ loadSucceeded
       \/ loadFailed
    /\ UNCHANGED <<corpus, pipeline, loading, orama, embeddingIndex, useEmbeddings, embeddingService,
                   pending, nParse>>

\* ensureLoaded() up to "await fetch(DOCS_URL)": this.loaded is still false, so
\* loadDocumentation() is entered and waits for the corpus
loadStart ==
    /\ ~loaded
    /\ loading < MaxLoads
    /\ loading' = loading + 1
    /\ UNCHANGED <<corpus, pipeline, orama, documentation, sections, apiIndex, loaded,
                   embeddingIndex, useEmbeddings, embeddingService, builds, pending,
                   nParse, call, ret>>

\* a waiting loadDocumentation() resumes with the outcome of its fetch
loadFinish ==
    /\ loading > 0
    /\ loading' = loading - 1
    /\ \/ loadSucceeded
       \/ loadFailed
    /\ UNCHANGED <<corpus, pipeline, orama, embeddingIndex, useEmbeddings, embeddingService,
                   pending, nParse>>

\* builds without its b-th element
dropBuild(b) == SubSeq(builds, 1, b - 1) \o SubSeq(builds, b + 1, Len(builds))

\* buildEmbeddingIndex resumes after initialize(): it collects the index items
buildStart(b) ==
    /\ builds[b].phase = "initialize"
    /\ embeddingService' \in initialize(embeddingService)
    /\ \E indexItems \in {indexItemsOf(sections, 1, 1)} :
          builds' = IF indexItems = <<>> THEN dropBuild(b)
                    ELSE [builds EXCEPT ![b] = [phase |-> "embed", items |-> indexItems]]
    /\ UNCHANGED <<corpus, pipeline, loading, orama, documentation, sections, apiIndex, loaded, embeddingIndex,
                   useEmbeddings, pending, nParse, call, ret>>

\* one pass of "for (const item of indexItems)": embed the text, push on success
buildEmbed(b) ==
    /\ builds[b].phase = "embed"
    /\ LET item == Head(builds[b].items)
       IN  \E o \in embed(embeddingService, item.text) :
              /\ embeddingService' = o.svc
              /\ embeddingIndex' =
                    IF o.result.ok
                    THEN Append(embeddingIndex, [text |-> item.text,
                                                 embedding |-> o.result.vec,
                                                 metadata |-> item.metadata])
                    ELSE embeddingIndex
    /\ builds' = IF Len(builds[b].items) = 1 THEN dropBuild(b)
                 ELSE [builds EXCEPT ![b].items = Tail(@)]
    /\ UNCHANGED <<corpus, pipeline, loading, orama, documentation, sections, apiIndex, loaded, useEmbeddings,
                   pending, nParse, call, ret>>

\* what search returns once the embedding of the query is there
searchResults(index, queryEmbedding, keywordResults, category, limit) ==
    LET semantic == semanticSearch(index, queryEmbedding, category, limit * 2)
    IN  IF semantic.threw THEN slice(keywordResults, limit)
        ELSE slice(mergeSearchResults(keywordResults, semantic.results), limit)

\* keywordSearch(query, category, limit)
keywordSearchCall(query, category, limit) ==
    /\ IF keywordThrows(sections, query, category)
       THEN ret' = "throw"
       ELSE ret' = keywordSearch(sections, query, category, limit)
    /\ call' = [op |-> "keywordSearch", query |-> query, category |-> category,
                limit |-> limit, threw |-> keywordThrows(sections, query, category)]
    /\ UNCHANGED <<corpus, pipeline, loading, orama, documentation, sections, apiIndex, loaded, embeddingIndex,
                   useEmbeddings, embeddingService, builds, pending, nParse>>

\* mergeSearchResults(keywordResults, semanticResults)
mergeSearchResultsCall(keywordResults, semanticResults) ==
    /\ ret' = mergeSearchResults(keywordResults, semanticResults)
    /\ call' = [op |-> "mergeSearchResults", keywordResults |-> keywordResults,
                semanticResults |-> semanticResults]
    /\ UNCHANGED <<corpus, pipeline, loading, orama, documentation, sections, apiIndex, loaded, embeddingIndex,
                   useEmbeddings, embeddingService, builds, pending, nParse>>

\* search(query, category, limit) up to its return, or up to the point where
\* semanticSearch waits for the embedding of the query; what keywordSearch raises
\* is raised to the caller
searchCall(query, category, limit) ==
    /\ ~pending.active
    /\ IF keywordThrows(sections, query, category)
       THEN /\ pending' = pending
            /\ ret' = "throw"
            /\ call' = [op |-> "search", query |-> query, category |-> category,
                        limit |-> limit, done |-> TRUE, threw |-> TRUE]
       ELSE \E keywordResults \in {keywordSearch(sections, query, category, limit * 2)} :
           IF useEmbeddings /\ Len(embeddingIndex) > 0
           THEN /\ pending' = [active |-> TRUE, query |-> query, category |-> category,
                               limit |-> limit, keywordResults |-> keywordResults]
                /\ ret' = Null
                /\ call' = [op |-> "search", query |-> query, category |-> category,
                            limit |-> limit, done |-> FALSE, threw |-> FALSE]
           ELSE /\ pending' = pending
                /\ ret' = slice(keywordResults, limit)
                /\ call' = [op |-> "search", query |-> query, category |-> category,
                            limit |-> limit, done |-> TRUE, threw |-> FALSE]
    /\ UNCHANGED <<corpus, pipeline, loading, orama, documentation, sections, apiIndex, loaded, embeddingIndex,
                   useEmbeddings, embeddingService, builds, nParse>>

\* the suspended search resumes with the embedding of its query
searchResume ==
    /\ pending.active
    /\ \E o \in embed(embeddingService, pending.query) :
          /\ embeddingService' = o.svc
          /\ ret' = searchResults(embeddingIndex, o.result, pending.keywordResults,
                                  pending.category, pending.limit)
    /\ pending' = NoPending
    /\ call' = [op |-> "search", query |-> pending.query, category |-> pending.category,
                limit |-> pending.limit, done |-> TRUE, threw |-> FALSE]
    /\ UNCHANGED <<corpus, pipeline, loading, orama, documentation, sections, apiIndex, loaded, embeddingIndex,
                   useEmbeddings, builds, nParse>>

\* embeddingService.initialize(), where the service exists
initializeCall ==
    /\ useEmbeddings
    /\ embeddingService' \in initialize(embeddingService)
    /\ ret' = "undefined"
    /\ call' = [op |-> "initialize", ok |-> embeddingService'.initialized]
    /\ UNCHANGED <<corpus, pipeline, loading, orama, documentation, sections, apiIndex, loaded, embeddingIndex,
                   useEmbeddings, builds, pending, nParse>>

\* embeddingService.embed(text)
embedCall(text) ==
    /\ useEmbeddings
    /\ \E o \in embed(embeddingService, text) :
          /\ embeddingService' = o.svc
          /\ ret' = o.result
    /\ call' = [op |-> "embed", text |-> text]
    /\ UNCHANGED <<corpus, pipeline, loading, orama, documentation, sections, apiIndex, loaded, embeddingIndex,
                   useEmbeddings, builds, pending, nParse>>

\* embeddingService.findSimilar(query, documents, topK)
findSimilarCall(query, documents, topK) ==
    /\ useEmbeddings
    /\ \E o \in findSimilar(embeddingService, query, documents, topK) :
          /\ embeddingService' = o.svc
          /\ ret' = o.results
    /\ call' = [op |-> "findSimilar", query |-> query, documents |-> documents,
                topK |-> topK]
    /\ UNCHANGED <<corpus, pipeline, loading, orama, documentation, sections, apiIndex, loaded, embeddingIndex,
                   useEmbeddings, builds, pending, nParse>>

\* semanticSearch(query, category, limit), the embedding of the query included
semanticSearchCall(query, category, limit) ==
    /\ IF ~useEmbeddings \/ Len(embeddingIndex) = 0
       THEN /\ embeddingService' = embeddingService
            /\ ret' = <<>>
            /\ call' = [op |-> "semanticSearch", query |-> query,
                        category |-> category, limit |-> limit, threw |-> FALSE]
       ELSE \E o \in embed(embeddingService, query) :
            \E semantic \in {semanticSearch(embeddingIndex, o.result, category, limit)} :
                /\ embeddingService' = o.svc
                /\ ret' = IF semantic.threw THEN "throw" ELSE semantic.results
                /\ call' = [op |-> "semanticSearch", query |-> query,
                            category |-> category, limit |-> limit,
                            threw |-> semantic.threw]
    /\ UNCHANGED <<corpus, pipeline, loading, orama, documentation, sections, apiIndex, loaded, embeddingIndex,
                   useEmbeddings, builds, pending, nParse>>

\* embeddingService.cosineSimilarity(embedding1, embedding2)
cosineSimilarityCall(embedding1, embedding2) ==
    /\ useEmbeddings
    /\ \E similarity \in {cosineSimilarity(embedding1, embedding2)} :
          /\ ret' = IF similarity.threw THEN "throw" ELSE similarity.value
          /\ call' = [op |-> "cosineSimilarity", embedding1 |-> embedding1,
                      embedding2 |-> embedding2, threw |-> similarity.threw]
    /\ UNCHANGED <<corpus, pipeline, loading, orama, documentation, sections, apiIndex,
                   loaded, embeddingIndex, useEmbeddings, embeddingService, builds,
                   pending, nParse>>

\* extractTitle(content)
extractTitleCall(content) ==
    /\ ret' = extractTitle(content)
    /\ call' = [op |-> "extractTitle", content |-> content]
    /\ UNCHANGED <<corpus, pipeline, loading, orama, documentation, sections, apiIndex,
                   loaded, embeddingIndex, useEmbeddings, embeddingService, builds,
                   pending, nParse>>

\* extractExcerpt(content, searchTerms, []), the call that semanticSearch makes
extractExcerptCall(content, searchTerms) ==
    /\ ret' = excerptWithoutPositions(content, searchTerms)
    /\ call' = [op |-> "extractExcerpt", content |-> content,
                searchTerms |-> searchTerms]
    /\ UNCHANGED <<corpus, pipeline, loading, orama, documentation, sections, apiIndex,
                   loaded, embeddingIndex, useEmbeddings, embeddingService, builds,
                   pending, nParse>>

\* getBestPractices(topic), on the loaded corpus
getBestPracticesCall(topic) ==
    /\ loaded
    /\ ret' = getBestPractices(sections, topic)
    /\ call' = [op |-> "getBestPractices", topic |-> topic]
    /\ UNCHANGED <<corpus, pipeline, loading, orama, documentation, sections, apiIndex,
                   loaded, embeddingIndex, useEmbeddings, embeddingService, builds,
                   pending, nParse>>

NotFound == [found |-> FALSE]

\* doc.content.match(/\{[\s\S]*"data"[\s\S]*\}/): from the first "{" to the last
\* "}", when a "data" key lies between them
dataMatchOf(content, jsonStart, jsonEnd) ==
    IF jsonStart = -1 \/ jsonEnd = -1 THEN [found |-> FALSE]
    ELSE IF \E q \in (jsonStart + 1)..(jsonEnd - Len(S_dataKey)) :
                occursAt(content, S_dataKey, q)
    THEN [found |-> TRUE, str |-> substring(content, jsonStart, jsonEnd + 1)]
    ELSE [found |-> FALSE]

dataMatch(content) ==
    dataMatchOf(content, indexOf(content, <<"{">>), lastIndexOf(content, <<"}">>))

\* the object getApiReference builds from a record it parsed again
referenceOfData(data, attrs) ==
    [found       |-> TRUE,
     name        |-> jsOr(get(attrs, K_name), get(attrs, K_shortname)),
     type        |-> get(data, K_type),
     module      |-> get(attrs, K_module),
     description |-> get(attrs, K_description),
     extends     |-> get(attrs, K_extends),
     methods     |-> jsOr(get(attrs, K_methods), JArr(<<>>)),
     properties  |-> jsOr(get(attrs, K_properties), JArr(<<>>))]

\* the body of "for (const doc of apiDocs)" for one item: the object returned,
\* or NotFound to go on with the next item
referenceOfParsed(parsed) ==
    IF ~parsed.ok THEN NotFound
    ELSE IF truthy(get(get(parsed.value, K_data), K_attributes))
    THEN referenceOfData(get(parsed.value, K_data),
                         get(get(parsed.value, K_data), K_attributes))
    ELSE NotFound

referenceOfMatch(m) ==
    IF m.found THEN referenceOfParsed(JSONparse(m.str)) ELSE NotFound

referenceOfDoc(doc, key) ==
    IF includes(toLowerCase(doc.content), key)
    THEN referenceOfMatch(dataMatch(doc.content))
    ELSE NotFound

\* the loop over the API items from docs[k] on: the first object returned
RECURSIVE extractReference(_, _, _)
extractReference(docs, key, k) ==
    IF k > Len(docs) THEN NotFound
    ELSE IF referenceOfDoc(docs[k], key).found THEN referenceOfDoc(docs[k], key)
    ELSE extractReference(docs, key, k + 1)

\* { ...apiDoc }: the entry the index holds for the key
referenceOfEntry(apiDoc) ==
    [found       |-> TRUE,
     name        |-> apiDoc.name,
     type        |-> apiDoc.type,
     module      |-> apiDoc.module,
     description |-> apiDoc.description,
     extends     |-> apiDoc.extends,
     methods     |-> apiDoc.methods,
     properties  |-> apiDoc.properties,
     rawData     |-> apiDoc.rawData]

\* search(query, category, limit) run without another operation in between: the
\* embedding service it leaves and the results, for every outcome of the embedder
searchRunWith(keywordResults, svc, index, use, query, category, limit) ==
    IF use /\ Len(index) > 0
    THEN {[svc |-> o.svc,
           results |-> searchResults(index, o.result, keywordResults, category, limit)] :
            o \in embed(svc, query)}
    ELSE {[svc |-> svc, results |-> slice(keywordResults, limit)]}

searchRun(secs, svc, index, use, query, category, limit) ==
    searchRunWith(keywordSearch(secs, query, category, limit * 2), svc, index, use,
                  query, category, limit)

\* getApiReference(name): the entry under the lower-cased name, or else the reference
\* rebuilt from the first API document that holds the name, when the search for the
\* name finds a result with a link; what the search raises is raised to the caller
getApiReferenceCall(name) ==
    /\ loaded
    /\ ~pending.active
    /\ IF toLowerCase(name) \in DOMAIN apiIndex
       THEN /\ ret' = referenceOfEntry(apiIndex[toLowerCase(name)])
            /\ embeddingService' = embeddingService
            /\ call' = [op |-> "getApiReference", name |-> name, threw |-> FALSE]
       ELSE IF keywordThrows(sections, name, S_api)
       THEN /\ ret' = "throw"
            /\ embeddingService' = embeddingService
            /\ call' = [op |-> "getApiReference", name |-> name, threw |-> TRUE]
       ELSE \E o \in searchRun(sections, embeddingService, embeddingIndex,
                               useEmbeddings, name, S_api, 1) :
            \E apiLink \in BOOLEAN :
                /\ embeddingService' = o.svc
                /\ ret' = IF Len(o.results) > 0 /\ apiLink
                          THEN extractReference(sectionItems(sections, S_apiDocs),
                                                toLowerCase(name), 1)
                          ELSE NotFound
                /\ call' = [op |-> "getApiReference", name |-> name, threw |-> FALSE]
    /\ UNCHANGED <<corpus, pipeline, loading, orama, documentation, sections, apiIndex, loaded, embeddingIndex,
                   useEmbeddings, builds, pending, nParse>>

(***************************************************************************)
(* The Orama-backed search of src/lib/documentation-service.js:            *)
(* SearchService (initialize, indexDocument, search, getDocumentCount),    *)
(* indexDocumentsForSearch and the readiness wait of search.  Orama and    *)
(* the model are libraries: a database is the number of documents inserted *)
(* in it, and a query returns any number of hits its documents allow.      *)
(***************************************************************************)
MaxWaits == 20

\* getDocumentCount()
getDocumentCount(svc) == IF ~svc.db THEN 0 ELSE svc.docs

\* the number of items of all sections
RECURSIVE itemCount(_, _)
itemCount(secs, s) ==
    IF s > Len(secs) THEN 0 ELSE Len(secs[s].items) + itemCount(secs, s + 1)

\* initialize() up to its first await, entered by the process p ("index" or
\* "search"): it returns at once on an initialized service, else it awaits create()
initializeEntered(svc, p, after) ==
    IF svc.initialized THEN [svc EXCEPT ![p].phase = after]
    ELSE [svc EXCEPT ![p].phase = "create"]

\* initialize() after "this.db = await create(...)": a new, empty database; with
\* embeddings enabled it awaits the model, else the service is initialized
initializeCreated(svc, p, after) ==
    IF svc.embeddingsEnabled
    THEN [svc EXCEPT !.db = TRUE, !.docs = 0, ![p].phase = "model"]
    ELSE [svc EXCEPT !.db = TRUE, !.docs = 0, !.initialized = TRUE, ![p].phase = after]

\* initialize() after "await pipeline(...)": the states it can leave, as loading
\* the model succeeds or fails
initializeModel(svc, p, after) ==
    {[svc EXCEPT !.embedder = TRUE, !.initialized = TRUE, ![p].phase = after],
     [svc EXCEPT !.embeddingsEnabled = FALSE, !.initialized = TRUE, ![p].phase = after]}

\* indexDocumentsForSearch once initialize() has returned: the loop over the items
indexLoop(svc, todo) ==
    IF todo = 0 THEN [svc EXCEPT !.index = [phase |-> "done", todo |-> 0]]
    ELSE [svc EXCEPT !.index = [phase |-> "insert", todo |-> todo]]

\* indexDocumentsForSearch after a step of its initialize(): the loop starts once
\* initialize() has returned
indexInitialized(svc, secs) ==
    IF svc.index.phase = "insert" THEN indexLoop(svc, itemCount(secs, 1)) ELSE svc

\* ensureLoaded() of the Orama-backed service: a load that succeeds also starts
\* indexDocumentsForSearch, which runs up to the first await of initialize()
ensureLoadedIndexing ==
    /\ ~loaded
    /\ loading = 0
    /\ \/ /\ loadSucceeded
          /\ orama' = IF loaded'
                      THEN indexInitialized(initializeEntered(orama, "index", "insert"),
                                            sections')
                      ELSE orama
       \/ /\ loadFailed
          /\ orama' = orama
    /\ UNCHANGED <<corpus, pipeline, loading, embeddingIndex, useEmbeddings, embeddingService,
                   pending, nParse>>

\* the initialize() of indexDocumentsForSearch resumes after create()
indexCreate ==
    /\ orama.index.phase = "create"
    /\ orama' = indexInitialized(initializeCreated(orama, "index", "insert"), sections)
    /\ UNCHANGED <<corpus, pipeline, loading, documentation, sections, apiIndex, loaded,
                   embeddingIndex, useEmbeddings, embeddingService, builds, pending,
                   nParse, call, ret>>

\* the initialize() of indexDocumentsForSearch resumes after pipeline()
indexModel ==
    /\ orama.index.phase = "model"
    /\ \E svc \in initializeModel(orama, "index", "insert") :
          orama' = indexInitialized(svc, sections)
    /\ UNCHANGED <<corpus, pipeline, loading, documentation, sections, apiIndex, loaded,
                   embeddingIndex, useEmbeddings, embeddingService, builds, pending,
                   nParse, call, ret>>

\* one pass of the loop: indexDocument inserts the item in this.db
indexInsert ==
    /\ orama.index.phase = "insert"
    /\ orama' = indexLoop([orama EXCEPT !.docs = @ + 1], orama.index.todo - 1)
    /\ UNCHANGED <<corpus, pipeline, loading, documentation, sections, apiIndex, loaded,
                   embeddingIndex, useEmbeddings, embeddingService, builds, pending,
                   nParse, call, ret>>

\* search after its wait loop: SearchService.search up to its first await
searchWaited(svc) == initializeEntered(svc, "search", "query")

\* the test of "while (getDocumentCount() === 0 && maxWaits > 0)": sleep again,
\* or leave the loop
searchLoop(svc) ==
    IF getDocumentCount(svc) = 0 /\ svc.search.maxWaits > 0
    THEN [svc EXCEPT !.search.phase = "sleep"]
    ELSE searchWaited(svc)

\* a mutant of searchSlept: the sleep is not counted
searchSleptNotCounted(svc) == searchLoop([svc EXCEPT !.search.polls = @ + 1])

\* the loop body after its sleep: maxWaits--, then the test again
searchSlept(svc) ==
    searchLoop([svc EXCEPT !.search.maxWaits = @ - 1, !.search.polls = @ + 1])

\* search(query, category, limit) up to its first await
oramaSearchCall(limit) ==
    /\ orama.search.phase = "idle"
    /\ orama' = searchLoop([orama EXCEPT !.search =
                               [phase |-> "idle", maxWaits |-> MaxWaits, polls |-> 0,
                                limit |-> limit, results |-> <<>>]])
    /\ call' = [op |-> "search", limit |-> limit, done |-> FALSE, threw |-> FALSE]
    /\ UNCHANGED <<corpus, pipeline, loading, documentation, sections, apiIndex, loaded,
                   embeddingIndex, useEmbeddings, embeddingService, builds, pending,
                   nParse, ret>>

\* the sleep of the wait loop ends
searchPoll ==
    /\ orama.search.phase = "sleep"
    /\ orama' = searchSlept(orama)
    /\ UNCHANGED <<corpus, pipeline, loading, documentation, sections, apiIndex, loaded,
                   embeddingIndex, useEmbeddings, embeddingService, builds, pending,
                   nParse, call, ret>>

\* the initialize() of SearchService.search resumes after create()
searchCreate ==
    /\ orama.search.phase = "create"
    /\ orama' = initializeCreated(orama, "search", "query")
    /\ UNCHANGED <<corpus, pipeline, loading, documentation, sections, apiIndex, loaded,
                   embeddingIndex, useEmbeddings, embeddingService, builds, pending,
                   nParse, call, ret>>

\* the initialize() of SearchService.search resumes after pipeline()
searchModel ==
    /\ orama.search.phase = "model"
    /\ orama' \in initializeModel(orama, "search", "query")
    /\ UNCHANGED <<corpus, pipeline, loading, documentation, sections, apiIndex, loaded,
                   embeddingIndex, useEmbeddings, embeddingService, builds, pending,
                   nParse, call, ret>>

\* the query runs on this.db and search returns its first limit hits: the hits
\* are numbered, and their number is any the database and the limit allow
searchQuery ==
    /\ orama.search.phase = "query"
    /\ \E hits \in 0..Min(getDocumentCount(orama), orama.search.limit) :
          orama' = [orama EXCEPT !.search.phase = "idle",
                                 !.search.results = [h \in 1..hits |-> h]]
    /\ call' = [op |-> "search", limit |-> orama.search.limit, done |-> TRUE,
                threw |-> FALSE]
    /\ UNCHANGED <<corpus, pipeline, loading, documentation, sections, apiIndex, loaded,
                   embeddingIndex, useEmbeddings, embeddingService, builds, pending,
                   nParse, ret>>

(***************************************************************************)
(* The parser on every text of up to MaxLines lines                        *)
(***************************************************************************)
MaxLines == 5

HdrApi ==
    <<"#"," ","a","p","i","-","d","o","c","s">>

HdrGuides ==
    <<"#"," ","g","u","i","d","e","s">>

HdrCommunity ==
    <<"#"," ","c","o","m","m","u","n","i","t","y","-","b","l","o","g","g","e","r","s">>

Hyphens == <<"-","-","-">>

ParseLines == {HdrApi, HdrGuides, Hyphens, <<"x">>, <<>>}

ParseTexts ==
    {join(ls, NL) : ls \in UNION {[1..n -> ParseLines] : n \in 1..MaxLines}}

InitParse == corpus \in ParseTexts /\ FreshService(FALSE)

NextParse == parseDocumentation

SpecParse == InitParse /\ [][NextParse]_vars

\* the lines of the corpus, and the parser's locals after k of them on a new service
CorpusLines == split(corpus, NL)

LoopState(k) == parseLoop(parseStart(<<>>), CorpusLines, k)

\* the zero-based index of the first section header, Len if there is none
FirstHeader ==
    IF \E k \in 1..Len(CorpusLines) : isSectionHeader(CorpusLines[k])
    THEN (CHOOSE k \in 1..Len(CorpusLines) :
            /\ isSectionHeader(CorpusLines[k])
            /\ \A j \in 1..(k - 1) : ~isSectionHeader(CorpusLines[j])) - 1
    ELSE Len(CorpusLines)

\* every item held, of every section
ItemsOf(secs) == UNION {Range(secs[k].items) : k \in 1..Len(secs)}

ItemLines(item) == split(item.content, NL)

\* the item's lines are the corpus lines from index startLine on
IsSliceOfCorpus(item) ==
    /\ item.startLine + Len(ItemLines(item)) <= Len(CorpusLines)
    /\ ItemLines(item) =
         SubSeq(CorpusLines, item.startLine + 1, item.startLine + Len(ItemLines(item)))

\* some item holds the corpus line of zero-based index idx
Covered(idx) ==
    \E item \in ItemsOf(sections) :
        item.startLine <= idx /\ idx < item.startLine + Len(ItemLines(item))

\* C5: after parseDocumentation has been applied twice to the same text on one
\* service, the sections are those of one application on a new service.
C5_ParseTwiceEqualsOnce ==
    nParse = 2 => sections = parseSections(<<>>, corpus)

\* C6: no item holds a line that precedes the first section header (every item is
\* a run of corpus lines that starts at or after it), and a text without a section
\* header, the empty text included, gives no section at all.
C6_PreambleDiscarded ==
    /\ \A item \in ItemsOf(sections) :
          item.startLine >= FirstHeader /\ IsSliceOfCorpus(item)
    /\ (FirstHeader = Len(CorpusLines) => sections = <<>>)

C6_Witness ==
    /\ nParse >= 1
    /\ FirstHeader > 0
    /\ CorpusLines[1] = <<"x">>
    /\ sections # <<>>

\* the lines accumulated for the current item, the header line that opened it apart
ContentLines(st) ==
    IF st.currentContent # <<>> /\ isSectionHeader(st.currentContent[1])
    THEN Len(st.currentContent) - 1
    ELSE Len(st.currentContent)

\* the hyphen line k (one-based) acted as a separator: the accumulated lines became
\* one item, the accumulation is empty, and no item holds the line
ActedAsSeparator(k) ==
    /\ LoopState(k).sections = flushItem(LoopState(k - 1))
    /\ LoopState(k).currentContent = <<>>
    /\ LoopState(k).currentSection = k
    /\ ~Covered(k - 1)

AddedItems(old, new) ==
    [k \in 1..Len(new) |->
        [name  |-> new[k].name,
         items |-> SubSeq(new[k].items,
                          (IF k <= Len(old) THEN Len(old[k].items) ELSE 0) + 1,
                          Len(new[k].items))]]

\* the positions <<section, item>> of the items of secs that hold the corpus line
\* of zero-based index idx
Holders(secs, idx) ==
    {p \in UNION {{<<k, j>> : j \in 1..Len(secs[k].items)} : k \in 1..Len(secs)} :
        LET item == secs[p[1]].items[p[2]]
        IN  item.startLine <= idx /\ idx < item.startLine + Len(ItemLines(item))}

\* the lines of the corpus are conserved in the items of secs
ConservesLines(secs) ==
    /\ \A k \in 1..Len(secs) : \A j \in 1..Len(secs[k].items) :
          /\ IsSliceOfCorpus(secs[k].items[j])
          /\ \A h \in 1..(j - 1) :
                secs[k].items[h].startLine < secs[k].items[j].startLine
    /\ \A idx \in 0..(Len(CorpusLines) - 1) :
          IF idx < FirstHeader THEN Holders(secs, idx) = {}
          ELSE \/ Cardinality(Holders(secs, idx)) = 1
               \/ Holders(secs, idx) = {} /\ isSeparator(CorpusLines[idx + 1])
    /\ \A idx \in 0..(Len(CorpusLines) - 1) :
          isSectionHeader(CorpusLines[idx + 1]) =>
              \E k \in 1..Len(secs) : \E j \in 1..Len(secs[k].items) :
                  /\ secs[k].name = trim(substring(CorpusLines[idx + 1], 2,
                                                   Len(CorpusLines[idx + 1])))
                  /\ secs[k].items[j].startLine = idx

C29_WitnessSecondParse ==
    /\ nParse = 2
    /\ \E idx \in 0..(Len(CorpusLines) - 1) : Cardinality(Holders(sections, idx)) = 2



(***************************************************************************)
(* The merger on every pair of result lists of up to MaxResults results    *)
(***************************************************************************)
MaxResults == 2

T_A == <<"A">>

T_B == <<"B">>

U_a == <<"/","a">>

U_b == <<"/","b">>

\* a keyword result as the tests of the merger write it: title, keywordScore, url
kwResult(title, url, keywordScore, score) ==
    [title |-> title, category |-> CatGuides, score |-> score,
     keywordScore |-> keywordScore, semanticScore |-> NoScore, url |-> url,
     matchedTerms |-> NoScore, totalTerms |-> NoScore, searchType |-> "keyword",
     hybridScore |-> NoScore, hasKeywordMatch |-> FALSE, hasSemanticMatch |-> FALSE]

\* a semantic result: title, semanticScore, url
semResult(title, url, semanticScore, score) ==
    [title |-> title, category |-> CatGuides, score |-> score,
     keywordScore |-> NoScore, semanticScore |-> semanticScore, url |-> url,
     matchedTerms |-> NoScore, totalTerms |-> NoScore, searchType |-> "semantic",
     hybridScore |-> NoScore, hasKeywordMatch |-> FALSE, hasSemanticMatch |-> FALSE]

KeywordPool ==
    {kwResult(T_A, U_a, 50, NoScore), kwResult(T_A, U_a, 40, 40),
     kwResult(T_B, U_b, 30, NoScore)}

SemanticPool ==
    {semResult(T_A, U_a, 60, NoScore), semResult(T_A, U_a, 80, 80),
     semResult(T_B, U_b, 80, NoScore)}

ListsOf(pool) == UNION {[1..n -> pool] : n \in 0..MaxResults}

InitMerge == corpus = <<>> /\ FreshService(FALSE)

NextMerge ==
    \E keywordResults \in ListsOf(KeywordPool), semanticResults \in ListsOf(SemanticPool) :
        mergeSearchResultsCall(keywordResults, semanticResults)

SpecMerge == InitMerge /\ [][NextMerge]_vars

\* the places of a list that hold the item (title, url) of r
PlacesOf(list, r) ==
    {j \in 1..Len(list) : list[j].title = r.title /\ list[j].url = r.url}

\* the scores a scored list holds for the item: {0} if the item is absent
ScoresOf(scores, places) ==
    IF places = {} THEN {0} ELSE {scores[i] : i \in places}

KeywordScoresOf(list, r) ==
    ScoresOf([i \in 1..Len(list) |-> orScore(list[i].keywordScore, list[i].score)],
             PlacesOf(list, r))

SemanticScoresOf(list, r) ==
    ScoresOf([i \in 1..Len(list) |-> orScore(list[i].semanticScore, list[i].score)],
             PlacesOf(list, r))

\* C1: every item of the merged list has the combined score 0.6 x its keyword
\* score (0 if absent from the keyword list) + 0.4 x its semantic score (0 if
\* absent from the semantic list); scores of merged items are in tenths, so a
\* keyword-only 50 gives 300, a semantic-only 80 gives 320, and 40 with 60 gives 480
C1_CombinedScore ==
    call.op = "mergeSearchResults" =>
        \A i \in 1..Len(ret) :
            \E k \in KeywordScoresOf(call.keywordResults, ret[i]),
               m \in SemanticScoresOf(call.semanticResults, ret[i]) :
                ret[i].score = KeywordWeightTenths * k + SemanticWeightTenths * m

\* C13: an item of the merged list is tagged hybrid (searchType "hybrid") exactly
\* when it is present in the keyword list and in the semantic list, also where a
\* list holds two results with the same title and URL.
C13_HybridIffBoth ==
    call.op = "mergeSearchResults" =>
        \A i \in 1..Len(ret) :
            (ret[i].searchType = "hybrid") <=>
                (/\ PlacesOf(call.keywordResults, ret[i]) # {}
                 /\ PlacesOf(call.semanticResults, ret[i]) # {})

(***************************************************************************)
(* The keyword ranker on small corpora                                     *)
(***************************************************************************)
MaxDocs == 2

Q_xz == <<"x"," ","z">>

Q_xxz == <<"x"," ","x"," ","z">>

Q_XZ == <<"Z"," "," ","X">>

KeywordDocs == {<<"x","x","x">>, <<"x"," ","z">>, <<"z"," ","w"," ","x">>}

\* a text of one section: the header, then the documents between separator lines
RECURSIVE sectionText(_, _)
sectionText(header, docs) ==
    IF docs = <<>> THEN header
    ELSE IF Len(docs) = 1 THEN header \o <<NL>> \o docs[1]
    ELSE sectionText(header, SubSeq(docs, 1, Len(docs) - 1))
         \o <<NL>> \o Hyphens \o <<NL>> \o docs[Len(docs)]

\* one section of up to MaxDocs documents, or two sections of one document each,
\* in either order
KeywordTexts ==
    {sectionText(HdrGuides, docs) :
        docs \in UNION {[1..n -> KeywordDocs] : n \in 1..MaxDocs}}
    \cup {sectionText(hs[1], <<d1>>) \o <<NL>> \o sectionText(hs[2], <<d2>>) :
            hs \in {<<HdrGuides, HdrCommunity>>, <<HdrCommunity, HdrGuides>>},
            d1 \in KeywordDocs, d2 \in KeywordDocs}

KeywordQueries == {Q_xz, Q_xxz, Q_XZ}

InitKeyword == corpus \in KeywordTexts /\ FreshService(FALSE)

NextKeyword ==
    \/ parseDocumentation
    \/ \E query \in KeywordQueries, category \in {S_all, S_guides}, limit \in {1, 10} :
          keywordSearchCall(query, category, limit)

SpecKeyword == InitKeyword /\ [][NextKeyword]_vars

\* the contents of the items of the sections a category selects
SearchedContents(category) ==
    LET names == sectionsToSearch(sections, category)
    IN  UNION {{it.content : it \in Range(sectionItems(sections, names[k]))} :
                  k \in 1..Len(names)}

TermsOf(query) == Range(splitWhitespace(toLowerCase(query)))

\* the distinct terms of the query that occur in the content
DistinctMatched(content, query) ==
    {t \in TermsOf(query) : includes(toLowerCase(content), t)}

\* C2: every item keywordSearch returns has score >= MIN_SCORE and either matched
\* at least 2 distinct query terms or has score >= MIN_SCORE_SINGLE_TERM
C2_KeywordGate ==
    call.op = "keywordSearch" =>
        \A i \in 1..Len(ret) :
            /\ ret[i].score >= MIN_SCORE
            /\ \E content \in SearchedContents(call.category) :
                  /\ extractTitle(content) = ret[i].title
                  /\ scoreItem(content, extractTitle(content), call.query).score = ret[i].score
                  /\ \/ Cardinality(DistinctMatched(content, call.query)) >= 2
                     \/ ret[i].score >= MIN_SCORE_SINGLE_TERM

\* the score the ranking rules give an item in which every query term occurs:
\* phrase bonus, per-term title bonus and frequency weight, the all-terms bonus,
\* and the proximity bonus over the first positions of the terms
ExpectedAllTermsScore(content, query) ==
    LET lower == toLowerCase(content)
        terms == splitWhitespace(toLowerCase(query))
        titleLower == toLowerCase(extractTitle(content))
        perTerm(t) == (IF includes(titleLower, t) THEN TITLE_MATCH_BONUS ELSE 0)
                      + countMatches(lower, t, 0) * TERM_MATCH_WEIGHT
        sum[k \in 0..Len(terms)] == IF k = 0 THEN 0 ELSE sum[k - 1] + perTerm(terms[k])
        positions == {indexOf(lower, t) : t \in Range(terms)}
        first == CHOOSE a \in positions : \A b \in positions : a <= b
        last == CHOOSE a \in positions : \A b \in positions : b <= a
    IN  (IF includes(lower, toLowerCase(query)) THEN EXACT_PHRASE_BONUS ELSE 0)
        + sum[Len(terms)]
        + ALL_TERMS_BONUS
        + (IF Len(terms) > 1 /\ last - first < PROXIMITY_THRESHOLD
           THEN (PROXIMITY_THRESHOLD - (last - first)) \div PROXIMITY_BONUS_DIVISOR
           ELSE 0)

\* C3: an item in which each query term occurs at least once scores the flat
\* all-terms bonus and the proximity bonus, whether or not the full query also
\* occurs verbatim in the item
C3_AllTermsBonus ==
    call.op = "keywordSearch" =>
        \A content \in SearchedContents(call.category) :
            (TermsOf(call.query) # {} /\ DistinctMatched(content, call.query) = TermsOf(call.query))
                => scoreItem(content, extractTitle(content), call.query).score
                       = ExpectedAllTermsScore(content, call.query)

\* the results of keywordSearch in discovery order, before the sort: section
\* iteration order, then item order within the section
Discovered(query, category) ==
    keywordSections(sections, sectionsToSearch(sections, category), query, 1)

\* the place of discovered[d] once the list is ordered by descending score, results
\* of equal score keeping their discovery order
RankOf(discovered, d) ==
    Cardinality({e \in 1..Len(discovered) :
                    \/ discovered[e].score > discovered[d].score
                    \/ discovered[e].score = discovered[d].score /\ e < d}) + 1

SortedStableLimited(discovered, limit, out) ==
    /\ Len(out) = Min(limit, Len(discovered))
    /\ \A p \in 1..(Len(out) - 1) : out[p].score >= out[p + 1].score
    /\ \A d \in 1..Len(discovered) :
          RankOf(discovered, d) <= Len(out) => out[RankOf(discovered, d)] = discovered[d]

\* C14: keywordSearch returns its results in non-increasing score order, results of
\* equal score keep their discovery order (section iteration order, then item order
\* within the section), and the list has at most limit entries
C14_SortedStableLimited ==
    call.op = "keywordSearch" =>
        /\ Len(ret) <= call.limit
        /\ SortedStableLimited(Discovered(call.query, call.category), call.limit, ret)

\* a search whose discovery order is not the score order, with two different results
\* of equal score, and a search that the limit cuts
C14_WitnessOf(discovered) ==
    /\ \E d, e \in 1..Len(discovered) :
          d < e /\ discovered[d].score < discovered[e].score
    /\ Len(ret) = Len(discovered)

C14_TieOf(discovered) ==
    \E d, e \in 1..Len(discovered) :
        /\ d < e
        /\ discovered[d].score = discovered[e].score
        /\ discovered[d] # discovered[e]
        /\ ret[1] = discovered[d]
        /\ ret[2] = discovered[e]

C14_Witness ==
    /\ call.op = "keywordSearch"
    /\ C14_WitnessOf(Discovered(call.query, call.category))

C14_Tie ==
    /\ call.op = "keywordSearch"
    /\ Len(ret) >= 2
    /\ C14_TieOf(Discovered(call.query, call.category))

C14_Cut ==
    /\ call.op = "keywordSearch"
    /\ Len(ret) = call.limit
    /\ Len(Discovered(call.query, call.category)) > call.limit

\* C30: every result keywordSearch returns reports a matched-term count between 0
\* and totalTerms, and totalTerms is the number of whitespace-separated terms of
\* the query.
C30_MatchedWithinTotal ==
    (call.op = "keywordSearch" /\ ~call.threw) =>
        \A i \in 1..Len(ret) :
            /\ ret[i].totalTerms = Len(splitWhitespace(toLowerCase(call.query)))
            /\ 0 <= ret[i].matchedTerms
            /\ ret[i].matchedTerms <= ret[i].totalTerms

\* a result without the query verbatim in its item, whose count is the number of
\* query terms that occur in the item
C30_CountWithoutPhrase ==
    /\ call.op = "keywordSearch" /\ ~call.threw
    /\ \E i \in 1..Len(ret) :
          /\ ret[i].matchedTerms = ret[i].totalTerms
          /\ \E content \in SearchedContents(call.category) :
                /\ extractTitle(content) = ret[i].title
                /\ ~includes(toLowerCase(content), toLowerCase(call.query))

(***************************************************************************)
(* Searching with queries that hold pattern characters                     *)
(***************************************************************************)
QueryDocs == {<<"c","+","+">>, <<"a",".","b">>, <<"@","a"," ","x">>, <<"x","x","x">>}

QueryTexts ==
    {sectionText(HdrGuides, docs) :
        docs \in UNION {[1..n -> QueryDocs] : n \in 0..MaxDocs}}

SpecialQueries ==
    {<<"c","+","+">>, <<"c","+">>, <<"f","(">>, <<".">>, <<"@","a">>, <<"a",".","b">>,
     <<"q"," ","w">>, <<"x"," ","@","a">>}

InitQuery == corpus \in QueryTexts /\ FreshService(FALSE)

NextQuery ==
    \/ parseDocumentation
    \/ \E query \in SpecialQueries, category \in {S_all, S_api}, limit \in {1, 5} :
          searchCall(query, category, limit)

SpecQuery == InitQuery /\ [][NextQuery]_vars

\* the contents of all the items of the corpus
AllContents ==
    UNION {{it.content : it \in Range(sectionItems(sections, name))} :
              name \in Range(sectionsToSearch(sections, S_all))}

\* no term of the query occurs in any item
NoTermOccurs(query) ==
    \A content \in AllContents : DistinctMatched(content, query) = {}

\* C12: search returns a list and never raises, for every query, also one whose
\* terms hold "@", "(", "+" or "."; the list is empty when no term of the query
\* occurs in any item
C12_SearchNeverRaises ==
    (call.op = "search" /\ call.done) =>
        /\ ~call.threw
        /\ NoTermOccurs(call.query) => ret = <<>>

\* a search that returned results although no term of its query occurs in any item
C12_MatchWithoutOccurrence ==
    /\ call.op = "search" /\ call.done /\ ~call.threw
    /\ NoTermOccurs(call.query)
    /\ ret # <<>>

(***************************************************************************)
(* Loading, background indexing and searching on small corpora             *)
(***************************************************************************)
SearchTexts ==
    {sectionText(HdrApi, <<Q_xz>>) \o <<NL>> \o sectionText(HdrGuides, <<<<"x">>>>),
     sectionText(HdrGuides, <<<<"x">>>>) \o <<NL>>
        \o sectionText(HdrCommunity, <<<<"z"," ","x">>>>),
     sectionText(HdrGuides, <<<<"x">>, Q_xz>>) \o <<NL>> \o sectionText(HdrApi, <<Q_xz>>)}

SearchQueries == {Q_xz, <<"x">>}

SearchCategories == {S_all, S_api, S_guides, S_community, <<"o">>}

InitSearch == corpus \in SearchTexts /\ \E option \in BOOLEAN : FreshService(option)

NextSearch ==
    \/ ensureLoaded
    \/ \E b \in 1..Len(builds) : buildStart(b)
    \/ \E b \in 1..Len(builds) : buildEmbed(b)
    \/ \E query \in SearchQueries, category \in SearchCategories, limit \in {1, 5} :
          searchCall(query, category, limit)
    \/ searchResume

SpecSearch == InitSearch /\ [][NextSearch]_vars

CategoryOf(category) ==
    IF category = S_api THEN {CatApi}
    ELSE IF category = S_guides THEN {CatGuides}
    ELSE IF category = S_community THEN {CatCommunity}
    ELSE IF category = S_all THEN {CatApi, CatGuides, CatCommunity}
    ELSE {}

\* C4: every result of search(query, "api", n) has the category "API
\* Documentation", of search(query, "guides", n) "Guides & Tutorials", and of
\* search(query, "community", n) "Community Articles", whether the result comes
\* from the keyword ranker, the semantic ranker or both
C4_CategoryFilter ==
    (call.op = "search" /\ call.done) =>
        \A i \in 1..Len(ret) : ret[i].category \in CategoryOf(call.category)

\* a filtered search returned a result of both rankers and a result of the semantic
\* ranker alone, while the semantic index also holds an item of another category
C4_Witness ==
    /\ call.op = "search" /\ call.done
    /\ call.category \in {S_api, S_guides, S_community}
    /\ \E i \in 1..Len(ret) : ret[i].hasSemanticMatch /\ ret[i].hasKeywordMatch
    /\ \E i \in 1..Len(ret) : ret[i].hasSemanticMatch /\ ~ret[i].hasKeywordMatch
    /\ \E i \in 1..Len(embeddingIndex) :
          categorizeSectionName(embeddingIndex[i].metadata.sectionName)
              \notin CategoryOf(call.category)

(***************************************************************************)
(* Tool calls that load the corpus, one started before the other has ended *)
(***************************************************************************)
InitLoad == corpus \in KeywordTexts /\ FreshService(FALSE)

NextLoad ==
    \/ loadStart
    \/ loadFinish
    \/ \E query \in {Q_xz}, limit \in {1, 10} : keywordSearchCall(query, S_all, limit)

SpecLoad == InitLoad /\ [][NextLoad]_vars

\* the sections after k parses of the corpus
RECURSIVE ParsedTimes(_)
ParsedTimes(k) == IF k = 0 THEN <<>> ELSE parseSections(ParsedTimes(k - 1), corpus)

\* the step is a load that ends with a failed fetch
IsFailedLoad ==
    /\ loading' = loading - 1
    /\ call'.op = "ensureLoaded"
    /\ ~call'.fetched

\* C17: a load whose fetch fails raises to its caller and leaves the loaded flag
\* (false, unless another load has set it), the sections and the API index as they
\* were, so that the next ensureLoaded call loads again; the service is marked
\* loaded only after a fetch and a whole parse have succeeded
C17_FetchFailure ==
    /\ [][IsFailedLoad =>
            /\ ret' = "throw"
            /\ loaded' = loaded
            /\ sections' = sections
            /\ apiIndex' = apiIndex
            /\ documentation' = documentation]_vars
    /\ [](loaded =>
            /\ \E k \in 1..MaxLoads :
                  /\ sections = ParsedTimes(k)
                  /\ apiIndex = indexApiDocs(<<>>, sections).index
            /\ documentation = corpus)

\* a load succeeded in the call that followed a failed load
C17_Witness ==
    /\ call.op = "ensureLoaded"
    /\ call.fetched /\ call.retry
    /\ loaded
    /\ sections = ParsedTimes(1)

\* C18: under every interleaving of calls that each call ensureLoaded, also two
\* that both start before the first load has ended, the corpus is parsed into the
\* sections at most once, so no section holds the same source item twice
C18_ParsedOnce ==
    /\ sections \in {<<>>, ParsedTimes(1)}
    /\ \A s \in 1..Len(sections) :
          \A i, j \in 1..Len(sections[s].items) :
              sections[s].items[i].startLine = sections[s].items[j].startLine => i = j

(***************************************************************************)
(* The embedding service and the searches that use it, called directly     *)
(***************************************************************************)
EmbedTexts ==
    {sectionText(HdrGuides, <<<<"x">>>>),
     sectionText(HdrGuides, <<<<"x">>, Q_xz>>)}

EmbedQueries == {<<"x">>, <<"z">>}

EmbedDocuments ==
    {<<>>,
     <<[text |-> <<"x">>, metadata |-> 1]>>,
     <<[text |-> <<"z">>, metadata |-> 1], [text |-> <<"x">>, metadata |-> 2]>>}

InitEmbed == corpus \in EmbedTexts /\ \E option \in BOOLEAN : FreshService(option)

NextEmbed ==
    \/ ensureLoaded
    \/ \E b \in 1..Len(builds) : buildStart(b)
    \/ \E b \in 1..Len(builds) : buildEmbed(b)
    \/ initializeCall
    \/ \E text \in EmbedQueries : embedCall(text)
    \/ \E query \in EmbedQueries, documents \in EmbedDocuments :
          findSimilarCall(query, documents, 1)
    \/ \E query \in EmbedQueries, category \in {S_all, S_api} :
          semanticSearchCall(query, category, 2)
    \/ \E query \in EmbedQueries \cup {<<"x","(">>}, limit \in {1, 5} :
          searchCall(query, S_all, limit)
    \/ searchResume

SpecEmbed == InitEmbed /\ [][NextEmbed]_vars

\* C15: while no model has been loaded (every initialisation so far failed, or there
\* is no embedding service), embed returns none, findSimilar and semanticSearch
\* return the empty list, none of them raises, and a search returns the first
\* limit results of the keyword ranking (and raises only what keywordSearch raises)
C15_NoOpWithoutModel ==
    ~embeddingService.embedder =>
        /\ embeddingIndex = <<>>
        /\ ~pending.active
        /\ call.op = "embed" => ~ret.ok
        /\ call.op = "findSimilar" => ret = <<>>
        /\ call.op = "semanticSearch" => (~call.threw /\ ret = <<>>)
        /\ call.op = "search" =>
              /\ call.done
              /\ call.threw = keywordThrows(sections, call.query, call.category)
              /\ ~call.threw =>
                    ret = slice(keywordSearch(sections, call.query, call.category,
                                              call.limit * 2), call.limit)

\* with the service enabled and the corpus loaded, a search found keyword results,
\* the background build has run to its end, and no model was ever loaded
C15_Witness ==
    /\ useEmbeddings /\ loaded /\ builds = <<>>
    /\ ~embeddingService.embedder
    /\ call.op = "search" /\ call.done /\ ~call.threw
    /\ Len(ret) > 0

C15_WitnessEmbed ==
    useEmbeddings /\ ~embeddingService.embedder /\ call.op = "embed" /\ ~ret.ok

C15_WitnessFindSimilar ==
    /\ useEmbeddings /\ ~embeddingService.embedder
    /\ call.op = "findSimilar" /\ Len(call.documents) = 2 /\ ret = <<>>

C15_WitnessSemantic ==
    /\ useEmbeddings /\ ~embeddingService.embedder /\ loaded
    /\ call.op = "semanticSearch" /\ ret = <<>>

\* C16: once initialising the embedding model has failed, no later step loads the
\* model: after a failed initialize() every embed call returns none, no model load
\* is attempted that could succeed, and no search gives semantic or hybrid results
C16_DowngradePermanent ==
    [][(call.op = "initialize" /\ ~call.ok) => ~embeddingService'.embedder]_vars

\* an embed call that returned a vector right after a failed initialize()
C16_EmbedAfterFailure ==
    [][~(/\ call.op = "initialize" /\ ~call.ok
         /\ call'.op = "embed" /\ ret'.ok)]_vars

(***************************************************************************)
(* Searching the Orama-backed service while its index is being populated   *)
(***************************************************************************)
OramaTexts ==
    {<<>>} \cup
    {sectionText(HdrGuides, docs) :
        docs \in UNION {[1..n -> {<<"x">>}] : n \in 1..MaxDocs}}

InitOrama == corpus \in OramaTexts /\ FreshService(FALSE)

NextOrama ==
    \/ ensureLoadedIndexing
    \/ indexCreate
    \/ indexModel
    \/ indexInsert
    \/ \E limit \in {1, 5} : oramaSearchCall(limit)
    \/ searchPoll
    \/ searchCreate
    \/ searchModel
    \/ searchQuery

SpecOrama == InitOrama /\ [][NextOrama]_vars

\* the timer of every sleep fires: setTimeout(resolve, 100) resolves the promise
\* the loop awaits
SpecOramaLive == SpecOrama /\ WF_orama(searchPoll)

\* C19: a search issued while the index is empty or not yet ready returns without
\* waiting for the construction (index population, model initialisation) to
\* finish: no search call waits for the database to be created or for the model
\* to be loaded
C19_SearchDoesNotWait ==
    orama.search.phase \notin {"create", "model"}

\* C20: the readiness wait of search polls the document count at most MaxWaits
\* (20) times and then goes on to the query, whether or not a document has been
\* indexed: every sleep of the loop ends in a later test, and the loop is left
C20_WaitCapped ==
    /\ [](/\ orama.search.polls <= MaxWaits
          /\ orama.search.polls + orama.search.maxWaits \in {0, MaxWaits}
          /\ orama.search.phase = "sleep" => orama.search.maxWaits > 0)
    /\ (orama.search.phase = "sleep") ~> (orama.search.phase # "sleep")

\* a search polled MaxWaits times and went on, with no document indexed
C20_Witness ==
    /\ orama.search.polls = MaxWaits
    /\ orama.search.phase # "sleep"
    /\ getDocumentCount(orama) = 0
    /\ orama.index.phase = "idle"

\* C26: the search index only grows: in every step of the index population and of
\* the searches that run beside it, the document count that getDocumentCount
\* reads does not decrease
C26_CountNeverDecreases ==
    [][getDocumentCount(orama') >= getDocumentCount(orama)]_vars

(***************************************************************************)
(* The API entry index on every API section of up to MaxRecords records    *)
(***************************************************************************)
MaxRecords == 2

RecAb ==
    <<"{","\"","d","a","t","a","\"",":","{","\"","t","y","p","e","\"",":","\"","c","l","a","s",
      "s","\"",",","\"","a","t","t","r","i","b","u","t","e","s","\"",":","{","\"","n","a","m",
      "e","\"",":","\"","A",".","b","\"",",","\"","m","o","d","u","l","e","\"",":","\"","m",
      "\"","}","}","}">>

RecB ==
    <<"{","\"","d","a","t","a","\"",":","{","\"","t","y","p","e","\"",":","\"","m","o","d","u",
      "l","e","\"",",","\"","a","t","t","r","i","b","u","t","e","s","\"",":","{","\"","n","a",
      "m","e","\"",":","\"","B","\"",",","\"","m","e","t","h","o","d","s","\"",":","[","{","\"",
      "n","a","m","e","\"",":","\"","f","\"","}","]","}","}","}">>

RecC ==
    <<"{","\"","d","a","t","a","\"",":","{","\"","a","t","t","r","i","b","u","t","e","s","\"",
      ":","{","\"","n","a","m","e","\"",":","\"","C","\"",",","\"","m","o","d","u","l","e","\"",
      ":","\"","B","\"","}","}","}">>

RecShort ==
    <<"{","\"","d","a","t","a","\"",":","{","\"","a","t","t","r","i","b","u","t","e","s","\"",
      ":","{","\"","s","h","o","r","t","n","a","m","e","\"",":","\"","D","\"","}","}","}">>

RecNoName ==
    <<"{","\"","d","a","t","a","\"",":","{","\"","a","t","t","r","i","b","u","t","e","s","\"",
      ":","{","\"","m","o","d","u","l","e","\"",":","\"","m","\"","}","}","}">>

RecNoAttrs ==
    <<"{","\"","d","a","t","a","\"",":","{","\"","t","y","p","e","\"",":","\"","c","l","a","s",
      "s","\"","}","}">>

RecBad ==
    <<"{","\"","d","a","t","a","\"",":","{","\"","a","t","t","r","i","b","u","t","e","s","\"",
      ":","{","\"","n","a","m","e","\"",":","\"","T","\"","}","}">>

S_class == <<"c","l","a","s","s">>

\* the records an API item may hold, each with what the documentation says of it:
\* whether it is well formed, its name, type, module path and methods, its
\* lower-cased primary name and the keys it is to be found under
ApiPool ==
    <<[text |-> RecAb, kind |-> "ok", name |-> <<"A",".","b">>, type |-> JStr(S_class),
       module |-> JStr(<<"m">>), methods |-> JArr(<<>>), key |-> <<"a",".","b">>,
       keys |-> {<<"a",".","b">>, <<"b">>, <<"m">>}],
      [text |-> RecB, kind |-> "ok", name |-> <<"B">>, type |-> JStr(K_module),
       module |-> Undefined,
       methods |-> JArr(<<JObj([x \in {K_name} |-> JStr(<<"f">>)])>>),
       key |-> <<"b">>, keys |-> {<<"b">>}],
      [text |-> RecC, kind |-> "ok", name |-> <<"C">>, type |-> Undefined,
       module |-> JStr(<<"B">>), methods |-> JArr(<<>>), key |-> <<"c">>,
       keys |-> {<<"c">>, <<"b">>}],
      [text |-> RecShort, kind |-> "ok", name |-> <<"D">>, type |-> Undefined,
       module |-> Undefined, methods |-> JArr(<<>>), key |-> <<"d">>,
       keys |-> {<<"d">>}],
      [text |-> RecNoName, kind |-> "no name", keys |-> {}],
      [text |-> RecNoAttrs, kind |-> "no attributes", keys |-> {}],
      [text |-> RecBad, kind |-> "undecodable", keys |-> {}]>>

\* the lines of an API section: the first record follows the header, every other
\* record follows a separator and an empty line
RECURSIVE apiLines(_, _)
apiLines(ids, k) ==
    IF k > Len(ids) THEN <<>>
    ELSE (IF k = 1 THEN <<ApiPool[ids[k]].text>>
          ELSE <<Hyphens, <<>>, ApiPool[ids[k]].text>>) \o apiLines(ids, k + 1)

ApiTexts ==
    {join(<<HdrApi>> \o apiLines(ids, 1), NL) :
        ids \in UNION {[1..n -> DOMAIN ApiPool] : n \in 0..MaxRecords}}

ApiNames ==
    {<<"A",".","b">>, <<"a",".","B">>, <<"b">>, <<"B">>, <<"M">>, <<"c">>, <<"D">>,
     <<"T">>, <<"b","(">>}

InitApi == corpus \in ApiTexts /\ FreshService(FALSE)

NextApi ==
    \/ ensureLoaded
    \/ \E name \in ApiNames : getApiReferenceCall(name)

SpecApi == InitApi /\ [][NextApi]_vars

\* the records of the corpus, in source order
IsRecordLine(line) == \E p \in DOMAIN ApiPool : ApiPool[p].text = line

RecordOfLine(line) == ApiPool[CHOOSE p \in DOMAIN ApiPool : ApiPool[p].text = line]

Records ==
    LET recordLines == SelectSeq(CorpusLines, IsRecordLine)
    IN  [k \in 1..Len(recordLines) |-> RecordOfLine(recordLines[k])]

WellFormed == {k \in 1..Len(Records) : Records[k].kind = "ok"}

\* the entry or reference e is the one of the record rec
IsEntryOf(e, rec) ==
    /\ e.name = JStr(rec.name)
    /\ e.type = rec.type
    /\ e.module = rec.module
    /\ e.methods = rec.methods
    /\ e.properties = JArr(<<>>)

\* no other record of the corpus registers a key of the k-th
NoCollision(k) ==
    \A j \in 1..Len(Records) : j # k => Records[j].keys \cap Records[k].keys = {}

\* C8: indexApiDocs never raises (a load whose fetch succeeded returns normally);
\* a record that does not decode, or lacks the attributes, or lacks both name and
\* shortname, registers no key; every well-formed record, before or after it, is
\* indexed under its lower-cased primary name; and one well-formed record with one
\* malformed record gives exactly one API entry.
C8_MalformedSkipped ==
    /\ (call.op = "ensureLoaded" /\ call.fetched) => (ret = "undefined" /\ loaded)
    /\ loaded =>
        /\ DOMAIN apiIndex \subseteq UNION {Records[k].keys : k \in WellFormed}
        /\ \A k \in WellFormed : Records[k].key \in DOMAIN apiIndex
        /\ (Len(Records) = 2 /\ Cardinality(WellFormed) = 1) =>
               Cardinality(Range(apiIndex)) = 1

\* an undecodable record followed by a well-formed one was indexed: one entry
C8_Witness ==
    /\ call.op = "ensureLoaded" /\ call.fetched /\ loaded
    /\ Len(Records) = 2
    /\ Records[1].kind = "undecodable"
    /\ Records[2].kind = "ok"
    /\ Records[2].key \in DOMAIN apiIndex
    /\ Cardinality(Range(apiIndex)) = 1

\* C9: where no other record registers the same keys, getApiReference returns the
\* entry of a record for its full name, for the last segment of a dotted name and
\* for its module path, in any letter case, and it is the same entry each time
\* (same name, type, module, methods, properties).
C9_AliasLookup ==
    call.op = "getApiReference" =>
        \A k \in WellFormed :
            (NoCollision(k) /\ toLowerCase(call.name) \in Records[k].keys) =>
                (ret.found /\ IsEntryOf(ret, Records[k]))

\* a dotted name was looked up by its last segment in the other letter case, in
\* a corpus that holds another well-formed record
C9_Witness ==
    /\ call.op = "getApiReference"
    /\ call.name = <<"B">>
    /\ Cardinality(WellFormed) = 2
    /\ \E k \in WellFormed :
          /\ Records[k].name = <<"A",".","b">>
          /\ NoCollision(k)
          /\ ret.found /\ IsEntryOf(ret, Records[k])

\* C10: after indexing, the index holds for the lower-cased primary name of every
\* registered record the entry of that very record, whatever the source order and
\* whatever keys the records share.
C10_PrimaryKeyReachable ==
    loaded =>
        \A k \in WellFormed :
            /\ Records[k].key \in DOMAIN apiIndex
            /\ IsEntryOf(apiIndex[Records[k].key], Records[k])

\* C11: getApiReference(name) for a name whose lower-cased form is not a key of
\* the API index returns the not-found value (null) and never raises
C11_MissReturnsNull ==
    (call.op = "getApiReference" /\ toLowerCase(call.name) \notin DOMAIN apiIndex) =>
        /\ ~call.threw
        /\ ~ret.found

\* a miss that returned a rebuilt reference instead of the not-found value
C11_MissReturnsObject ==
    /\ call.op = "getApiReference"
    /\ toLowerCase(call.name) \notin DOMAIN apiIndex
    /\ ~call.threw
    /\ ret.found

(***************************************************************************)
(* Searching when the embedder returns vectors of two different lengths    *)
(***************************************************************************)
DimVectors == {<<1, 0>>, <<1>>}

DimTexts == {sectionText(HdrGuides, <<<<"x">>, <<"z">>>>)}

InitDim == corpus \in DimTexts /\ FreshServiceWith(TRUE, DimVectors)

NextDim ==
    \/ ensureLoaded
    \/ \E b \in 1..Len(builds) : buildStart(b)
    \/ \E b \in 1..Len(builds) : buildEmbed(b)
    \/ \E query \in EmbedQueries, category \in {S_all, S_api} :
          semanticSearchCall(query, category, 2)
    \/ \E query \in EmbedQueries, category \in {S_all, S_api}, limit \in {1, 5} :
          searchCall(query, category, limit)
    \/ searchResume

SpecDim == InitDim /\ [][NextDim]_vars

\* an entry of the index that the category filter keeps has a vector whose length
\* differs from that of the query vector
DimensionMismatch(index, category, queryEmbedding) ==
    \E i \in 1..Len(index) :
        /\ inCategory(category, index[i].metadata.sectionName)
        /\ Len(index[i].embedding) # Len(queryEmbedding)

\* the step ends a search whose query vector, which embed has left in the cache,
\* met an indexed vector of another length
IsMismatchedSearch ==
    /\ pending.active
    /\ ~pending'.active
    /\ cacheHas(embeddingService'.embeddingCache, getCacheKey(pending.query))
    /\ DimensionMismatch(embeddingIndex, pending.category,
                         cacheGet(embeddingService'.embeddingCache,
                                  getCacheKey(pending.query)).vec)

\* C21: a search in which the query vector and an indexed vector differ in length
\* raises to its caller and returns no result list
C21_MismatchRaised == [][IsMismatchedSearch => call'.threw]_vars

(***************************************************************************)
(* cosineSimilarity on vectors of up to MaxDim components.  The vectors    *)
(* have integral length: similarities are counted in hundredths.           *)
(***************************************************************************)
MaxDim == 3

\* the vectors of n components with at most one component that is not 0
AxisVectors(n) ==
    {[i \in 1..n |-> 0]}
    \cup {[i \in 1..n |-> IF i = k THEN c ELSE 0] : k \in 1..n, c \in {-1, 1}}

CosineVectors ==
    UNION {AxisVectors(n) : n \in 0..MaxDim}
    \cup {<<3, 4>>, <<-3, -4>>, <<4, -3>>, <<0, 3, 4>>}

InitCosine == corpus = <<>> /\ FreshService(TRUE)

NextCosine ==
    \E embedding1 \in CosineVectors, embedding2 \in CosineVectors :
        cosineSimilarityCall(embedding1, embedding2)

SpecCosine == InitCosine /\ [][NextCosine]_vars

IsZero(v) == \A i \in 1..Len(v) : v[i] = 0

IsUnit(v) == dot(v, v, 1) = 1

Opposite(v) == [i \in 1..Len(v) |-> 0 - v[i]]

C22_WitnessOpposite ==
    /\ call.op = "cosineSimilarity"
    /\ ~call.threw
    /\ IsUnit(call.embedding1)
    /\ call.embedding2 = Opposite(call.embedding1)
    /\ ret = -100

\* the call returned 0 for a vector of magnitude 0 and a vector that is not 0
C22_WitnessZero ==
    /\ call.op = "cosineSimilarity"
    /\ ~call.threw
    /\ IsZero(call.embedding1)
    /\ Len(call.embedding1) = 2
    /\ ~IsZero(call.embedding2)
    /\ ret = 0

(***************************************************************************)
(* extractTitle on the texts made of up to MaxPieces pieces, joined by     *)
(* newlines: headers, body lines, structural lines, a record and front     *)
(* matter, among them lines of more than 100 characters                    *)
(***************************************************************************)
MaxPieces == 2

\* the character c, n times
Rep(c, n) == [i \in 1..n |-> c]

T_header ==
    <<"#"," ","a","b","c","d">>

T_shortHeader ==
    <<"#"," ","a","b">>

T_short ==
    <<"h","e","l","l","o">>

T_sentence ==
    <<"h","e","l","l","o"," ","w","o","r","l","d"," ","o","n","e","."," ","t","w","o">>

T_generic ==
    <<"n","o","t","e",":"," ","s","o","m","e","t","h","i","n","g"," ","l","o","n","g">>

T_brace ==
    <<"{","}">>

T_rule ==
    <<"=","=","=">>

T_front ==
    <<"-","-","-","\n","t","i","t","l","e",":"," ","\"","T","t","\"","\n","-","-","-">>

T_frontBlank ==
    <<"-","-","-","\n","t","i","t","l","e",":"," ","\""," ","\"","\n","-","-","-">>

T_record ==
    <<"{","\"","d","a","t","a","\"",":","{","\"","a","t","t","r","i","b","u","t","e","s","\"",
      ":","{","\"","n","a","m","e","\"",":","\"","N","\"","}","}","}">>

T_longHeader == <<"#", " ">> \o Rep("x", 101)

T_longLine == Rep("y", 105)

T_longSentence == Rep("y", 104) \o <<".", "z">>

TitlePieces ==
    {T_header, T_shortHeader, T_short, T_sentence, T_generic, T_brace, T_rule, T_front,
     T_frontBlank, T_record, T_longHeader, T_longLine, T_longSentence, <<>>}

TitleTexts ==
    {join(pieces, NL) : pieces \in UNION {[1..n -> TitlePieces] : n \in 1..MaxPieces}}

InitTitle == corpus = <<>> /\ FreshService(FALSE)

\* the extractor is a function of its argument: one call on the fresh service
NextTitle ==
    /\ call.op = "new"
    /\ \E content \in TitleTexts : extractTitleCall(content)

SpecTitle == InitTitle /\ [][NextTitle]_vars

\* C23: the title that extractTitle returns is not empty, has at most 100
\* characters and holds no newline, whichever step produces it
C23_TitleContract ==
    call.op = "extractTitle" =>
        /\ Len(ret) >= 1
        /\ Len(ret) <= 100
        /\ \A i \in 1..Len(ret) : ret[i] # NL

\* extractTitle returned a title of more than 100 characters
C23_LongTitle == call.op = "extractTitle" /\ Len(ret) > 100

\* extractTitle returned the empty title
C23_EmptyTitle == call.op = "extractTitle" /\ Len(ret) = 0

\* the lines of the content, trimmed
TrimmedLines(content) ==
    [i \in 1..Len(split(content, NL)) |-> trim(split(content, NL)[i])]

\* the lines of the content of the call, trimmed
TitleLines == TrimmedLines(call.content)

\* the lines that are not empty, not generic and not structural
Qualifying == {k \in 1..Len(TitleLines) : ~isSkipped(TitleLines[k])}

FirstQualifying == TitleLines[CHOOSE k \in Qualifying : \A j \in Qualifying : k <= j]

\* extractTitle reaches its last step: there is no front-matter title, no
\* qualifying header and no record name
NoEarlierTitle ==
    /\ ~frontmatterTitle(call.content).found
    /\ ~firstHeaderTitle(split(call.content, NL), 1).found
    /\ ~jsonName(call.content).found

\* C28: without a front-matter title, a qualifying header and a record name,
\* extractTitle returns the first line that is not empty, generic or structural:
\* its first sentence cut at 100 characters when the line is longer than 10
\* characters, the line itself otherwise; "Untitled" only when no line qualifies
C28_FallbackLine ==
    (call.op = "extractTitle" /\ NoEarlierTitle) =>
        ret = IF Qualifying = {} THEN S_untitled
              ELSE IF Len(FirstQualifying) > 10
              THEN sentenceOf(FirstQualifying, sentenceEnd(FirstQualifying))
              ELSE FirstQualifying

\* a line of at most 10 characters qualifies and comes first, and the title is
\* not that line
C28_ShortLinePassedOver ==
    /\ call.op = "extractTitle"
    /\ NoEarlierTitle
    /\ Qualifying # {}
    /\ Len(FirstQualifying) <= 10
    /\ ret # FirstQualifying

(***************************************************************************)
(* extractExcerpt without term positions, on the texts made of up to       *)
(* MaxPieces lines and on term lists of which no term, or some term, occurs *)
(***************************************************************************)
E_plain ==
    <<"p","l","a","i","n"," ","b","o","d","y"," ","l","i","n","e"," ","o","f"," ","3","1"," ",
      "c","h","a","r","a","c","t","e","r">>

E_thirty ==
    <<"p","l","a","i","n"," ","b","o","d","y"," ","l","i","n","e",","," ","3","0"," ","c","h",
      "a","r","a","c","t","e","r","s">>

E_header ==
    <<"#"," ","h","e","a","d","e","r"," ","l","i","n","e"," ","t","h","a","t"," ","i","s"," ",
      "l","o","n","g","e","r"," ","t","h","a","n"," ","t","h","i","r","t","y">>

E_brace ==
    <<"{"," ","b","r","a","c","e"," ","l","i","n","e"," ","t","h","a","t"," ","i","s"," ","l",
      "o","n","g","e","r"," ","t","h","a","n"," ","t","h","i","r","t","y">>

E_padded ==
    <<" "," "," ","p","a","d","d","e","d"," ","l","i","n","e",","," ","s","h","o","r","t"," ",
      "i","n"," ","t","r","i","m"," "," "," ">>

E_upper ==
    <<"L","i","n","e"," ","W","i","t","h"," ","T","h","e"," ","T","e","r","m"," ","Q","Q"," ",
      "i","n"," ","c","a","p","i","t","a","l"," ","l","e","t","t","e","r","s">>

E_short ==
    <<"s","h","o","r","t">>

E_long == Rep("p", 360)

ExcerptPieces ==
    {E_plain, E_thirty, E_header, E_brace, E_padded, E_upper, E_short, E_long, <<>>}

ExcerptTexts ==
    {join(pieces, NL) : pieces \in UNION {[1..n -> ExcerptPieces] : n \in 1..MaxPieces}}

ExcerptTerms == {<<>>, <<<<"z", "z">>>>, <<<<"z", "z">>, <<"q", "q">>>>, <<<<"Q", "Q">>>>}

InitExcerpt == corpus = <<>> /\ FreshService(FALSE)

\* the extractor is a function of its arguments: one call on the fresh service
NextExcerpt ==
    /\ call.op = "new"
    /\ \E content \in ExcerptTexts, searchTerms \in ExcerptTerms :
          extractExcerptCall(content, searchTerms)

SpecExcerpt == InitExcerpt /\ [][NextExcerpt]_vars

\* some term occurs in the content, letter case aside
TermOccurs(content, searchTerms) ==
    \E k \in 1..Len(searchTerms) :
        includes(toLowerCase(content), toLowerCase(searchTerms[k]))

\* the first of the lines whose index is in the set, cut at 350 characters, or the
\* sentinel when the set is empty
FirstLineOf(lines, indices) ==
    IF indices = {} THEN S_noPreview
    ELSE substring(lines[CHOOSE i \in indices : \A j \in indices : i <= j], 0, 350)

\* C24: when no term of the query occurs in the text and no term positions are
\* supplied, extractExcerpt returns the first line that, trimmed, is longer than 30
\* characters and does not begin with "#", "-", "=" or "{", trimmed and cut at 350
\* characters, or "No preview available" when there is no such line
C24_FirstParagraph ==
    (call.op = "extractExcerpt" /\ ~TermOccurs(call.content, call.searchTerms)) =>
        ret = FirstLineOf(TrimmedLines(call.content),
                          {i \in 1..Len(TrimmedLines(call.content)) :
                              /\ Len(TrimmedLines(call.content)[i]) > 30
                              /\ TrimmedLines(call.content)[i][1]
                                    \notin {"#", "-", "=", "{"}})

\* C24 as stated: the first line longer than 30 characters, whatever it begins with
C24_FirstLongLine ==
    (call.op = "extractExcerpt" /\ ~TermOccurs(call.content, call.searchTerms)) =>
        ret = FirstLineOf(split(call.content, NL),
                          {i \in 1..Len(split(call.content, NL)) :
                              Len(split(call.content, NL)[i]) > 30})

\* no term occurs, a header line of more than 30 characters comes first, and the
\* excerpt is the body line after it
C24_Witness ==
    /\ call.op = "extractExcerpt"
    /\ call.searchTerms # <<>>
    /\ ~TermOccurs(call.content, call.searchTerms)
    /\ call.content = join(<<E_header, E_plain>>, NL)
    /\ ret = E_plain

\* no term occurs and no line qualifies: the sentinel
C24_WitnessSentinel ==
    /\ call.op = "extractExcerpt"
    /\ call.searchTerms # <<>>
    /\ call.content = join(<<E_thirty, E_padded>>, NL)
    /\ ret = S_noPreview

\* no term occurs and a line of 360 characters is cut at 350
C24_WitnessCut ==
    /\ call.op = "extractExcerpt"
    /\ call.searchTerms # <<>>
    /\ ~TermOccurs(call.content, call.searchTerms)
    /\ call.content = join(<<E_short, E_long>>, NL)
    /\ Len(ret) = 350

(***************************************************************************)
(* getBestPractices on corpora of up to MaxItems documents after the       *)
(* section header, on a corpus of seven documents with titles of their     *)
(* own, and on corpora of a guides and a community section                 *)
(***************************************************************************)
MaxItems == 2

P_alpha ==
    <<"#"," ","A","l","p","h","a","\n","a","b","c"," ","a","v","o","i","d"," ","t","h","i","s",
      " ","t","h","i","n","g">>

P_alphaLower ==
    <<"#"," ","a","l","p","h","a","\n","a","b","c"," ","i","s"," ","h","e","r","e">>

P_beta ==
    <<"#"," ","B","e","t","a","\n","t","h","e"," ","a","b","c","s"," ","s","h","o","u","l","d",
      " ","b","e"," ","m","o","d","e","r","n">>

P_fenced ==
    <<"#"," ","A","l","p","h","a","\n",Grave,Grave,Grave,"\n","a","b","c","\n",Grave,Grave,Grave>>

P_none ==
    <<"#"," ","G","a","m","m","a","\n","n","o","t","h","i","n","g"," ","o","f"," ","t","h","e",
      " ","t","o","p","i","c">>

P_two ==
    <<"#"," ","D","e","l","t","a","\n","a","b","c"," ","x","y","z"," ","a","v","o","i","d"," ",
      "t","i","p">>

T_abc ==
    <<"a","b","c">>

T_abcXyz ==
    <<"A","b","c"," "," ","x","y","z">>

T_ab ==
    <<"a","b">>

PracticeDocs == {P_alpha, P_alphaLower, P_beta, P_fenced, P_none, P_two}

\* a document with the title cccc that holds the topic, with or without a keyword
TitledDoc(c, keyword) == <<"#", " ", c, c, c, c, NL>> \o T_abc \o <<" ">> \o keyword

SevenDocs ==
    <<TitledDoc("k", <<>>), TitledDoc("l", StrongKeywords[6]), TitledDoc("m", <<>>),
      TitledDoc("n", StrongKeywords[7]), TitledDoc("o", <<>>),
      TitledDoc("p", StrongKeywords[6]), TitledDoc("q", <<>>)>>

PracticeTopics == {T_abc, T_abcXyz, T_ab}

PracticeTexts ==
    {sectionText(header, <<P_beta>> \o docs) :
        header \in {HdrCommunity, HdrGuides},
        docs \in UNION {[1..n -> PracticeDocs] : n \in 0..MaxItems}}
    \cup {sectionText(HdrCommunity, SevenDocs)}
    \cup {sectionText(HdrGuides, <<P_none, d1>>) \o <<NL>>
             \o sectionText(HdrCommunity, <<P_none, d2>>) :
            d1 \in PracticeDocs, d2 \in PracticeDocs}

InitPractices == corpus \in PracticeTexts /\ FreshService(FALSE)

NextPractices ==
    \/ ensureLoaded
    \/ \E topic \in PracticeTopics : getBestPracticesCall(topic)

SpecPractices == InitPractices /\ [][NextPractices]_vars

\* the documents in scan order and the terms of the topic of the call
ScannedDocs == allSections(sections)

TopicTerms == topicTermsOf(toLowerCase(call.topic))

\* the scanned documents that match a term and reach the threshold
Candidates ==
    {k \in 1..Len(ScannedDocs) :
        isCandidate(toLowerCase(ScannedDocs[k].content), TopicTerms)}

\* the candidates whose title is the given one, letter case aside
Titled(title) ==
    {k \in Candidates :
        toLowerCase(extractTitle(ScannedDocs[k].content)) = toLowerCase(title)}

\* the first of them in scan order
FirstTitled(title) == CHOOSE k \in Titled(title) : \A j \in Titled(title) : k <= j

ScoreOfFirst(title) ==
    practiceScore(toLowerCase(ScannedDocs[FirstTitled(title)].content), TopicTerms)

C25_WitnessCapped ==
    /\ call.op = "getBestPractices"
    /\ Len(ret) = MAX_BEST_PRACTICES
    /\ Cardinality({toLowerCase(extractTitle(ScannedDocs[k].content)) : k \in Candidates})
          > MAX_BEST_PRACTICES

\* fewer than 5 practices are returned and none has the title of a candidate from
\* which content can be extracted: an earlier candidate of that title, from which
\* no content is extracted, has taken the title
C25_TitleTaken ==
    /\ call.op = "getBestPractices"
    /\ Len(ret) < MAX_BEST_PRACTICES
    /\ \E k \in Candidates :
          /\ extractBestPracticeSections(ScannedDocs[k].content,
                                         toLowerCase(call.topic)).content # <<>>
          /\ \A i \in 1..Len(ret) :
                toLowerCase(ret[i].title) # toLowerCase(extractTitle(ScannedDocs[k].content))

(***************************************************************************)
(* The embedding cache: embed called on short texts, two of which have the *)
(* same hash, and on texts that share their first 500 characters           *)
(***************************************************************************)
CacheTexts ==
    {<<"A", "a">>, <<"B", "B">>, <<"x">>,
     Rep("x", 500), Rep("x", 500) \o <<"a">>, Rep("x", 500) \o <<"b">>}

InitCache == corpus = <<>> /\ FreshService(TRUE)

NextCache ==
    \/ initializeCall
    \/ \E text \in CacheTexts : embedCall(text)

SpecCache == InitCache /\ [][NextCache]_vars

\* the step is a call of embed that follows a call of embed which returned a vector
IsEmbedAfterEmbed ==
    /\ call.op = "embed"
    /\ ret.ok
    /\ call'.op = "embed"

\* C27: a second embed of the same text returns the vector of the first without a
\* call of the model, and embed returns a cached vector only for the text it was
\* computed for: while the cache holds one vector, that of the text embedded last,
\* the embed of another text does not return a vector without a call of the model
C27_CachedForSameText ==
    [][IsEmbedAfterEmbed =>
          /\ call'.text = call.text =>
                /\ ret' = ret
                /\ embeddingService'.embeddingCache = embeddingService.embeddingCache
          /\ (call'.text # call.text
                /\ Cardinality(embeddingService.embeddingCache) = 1
                /\ ret'.ok)
             => embeddingService'.embeddingCache # embeddingService.embeddingCache]_vars

\* the same text embedded twice: the second call returns the vector of the first and
\* leaves the cache as it is
C27_SameTextCached ==
    [][(IsEmbedAfterEmbed /\ call'.text = call.text) =>
          /\ ret' = ret
          /\ embeddingService'.embeddingCache = embeddingService.embeddingCache]_vars

====
